---- MODULE Spec2Model ----
(***************************************************************************)
(* Finergize recommender: the RecommenderService of                        *)
(* src/services/recommender_service.py, the model objects it can hold and  *)
(* the request handlers of src/api/recommender.py and src/main.py, and the  *)
(* model file tool src/update_model.py.                                    *)
(*                                                                         *)
(* JSON values are records [t, s, l, n]: t is the JSON type ("absent" for  *)
(* a key the mapping does not hold), s the string, l the elements of a     *)
(* list of strings (only membership is ever tested on it), n the number.   *)
(* Texts that the code searches for substrings are sequences of            *)
(* one-character strings; "INR" stands for the rupee sign.                 *)
(***************************************************************************)
EXTENDS Integers, Sequences, FiniteSets, TLC

VARIABLES
  env,           \* process environment and bundle file, fixed at start-up
  model,         \* self.model: [kind, has_api, api_key]
  has_api,       \* self.has_api of the service
  svc_features,  \* the service's own finergize_features attribute
  option_icon,   \* the "icon" key of every option dict of the shared templates
  resp           \* the request or requests in progress and what they answer;
                 \* in the start-up specification the global _service and
                 \* the worker threads, in the update_model.py
                 \* specification the run of the tool and the file it wrote

vars == <<env, model, has_api, svc_features, option_icon, resp>>

\* ------------------------------------------------------------------ bounds

\* A responses mapping of the service specification holds at most MaxFields
\* keys, and a list answer in it at most MaxListLen tags.
MaxFields == 1
MaxListLen == 1
\* The same for the inputs of the Scoring Engine specification.
MaxEngineFields == 2
MaxEngineListLen == 2
\* A Remote Scorer reply holds at most MaxReplyLen feature entries.
MaxReplyLen == 2

\* ------------------------------------------------------------- JSON values

Absent == [t |-> "absent", s |-> "", l |-> {}, n |-> 0]
Null == [t |-> "null", s |-> "", l |-> {}, n |-> 0]
Str(x) == [t |-> "str", s |-> x, l |-> {}, n |-> 0]
Num(x) == [t |-> "num", s |-> "", l |-> {}, n |-> x]
List(x) == [t |-> "list", s |-> "", l |-> x, n |-> 0]

\* dict.get(key, default)
Get(responses, key, default) ==
  IF responses[key].t = "absent" THEN default ELSE responses[key]

\* x in [tag, ...] for a list of string literals
InTags(x, tags) == x.t = "str" /\ x.s \in tags

\* "tag" in lst, for lst a Python list given as the set of its elements
Has(tag, lst) == Str(tag) \in lst

\* a normalisation that keeps lists and drops every other value
AsList_lists_only(v) == IF v.t = "list" THEN {Str(x) : x \in v.l} ELSE {}

\* the list a multiple-choice answer is normalised to (lines 642-649)
AsList(v) == IF v.t = "list" THEN {Str(x) : x \in v.l} ELSE {v}

\* Body(v) with v evaluated once
Let(v, Body(_)) == CHOOSE r \in {Body(x) : x \in {v}} : TRUE

Max(a, b) == IF a >= b THEN a ELSE b
Min(a, b) == IF a <= b THEN a ELSE b

\* --------------------------------------------------------------- catalogue

FeatureIds ==
  <<"digital_banking", "mutual_funds", "community_savings",
    "micro_loans", "analytics_profile", "financial_education">>

\* the "name" of each catalogue entry (lines 122-153): display names, as the
\* character sequences get_feature_name searches
FeatureName ==
  [Digital_Banking |-> <<"D","i","g","i","t","a","l"," ","B","a","n","k","i","n","g">>,
   Mutual_Funds |-> <<"M","u","t","u","a","l"," ","F","u","n","d","s">>,
   Community_Savings |-> <<"C","o","m","m","u","n","i","t","y"," ","S","a","v","i","n","g","s">>,
   Micro_Loans |-> <<"M","i","c","r","o"," ","L","o","a","n","s">>,
   Analytics_Profile |-> <<"A","n","a","l","y","t","i","c","s"," ","P","r","o","f","i","l","e">>,
   Financial_Education |-> <<"F","i","n","a","n","c","i","a","l"," ","E","d","u","c","a","t","i","o","n">>]

\* finergize_features of the default model and of a bundle
finergize_features ==
  [digital_banking |->
     [name |-> FeatureName.Digital_Banking,
      description |-> "Secure digital banking services with UPI payments, bill payments, and account management",
      ideal_for |-> "Users looking for convenient, modern banking with minimal fees"],
   mutual_funds |->
     [name |-> FeatureName.Mutual_Funds,
      description |-> "Simple investments in diversified mutual funds with low minimum entry",
      ideal_for |-> "Users interested in growing their wealth through market-linked investments"],
   community_savings |->
     [name |-> FeatureName.Community_Savings,
      description |-> "Group savings programs where community members save together and support each other",
      ideal_for |-> "Users who want to save with friends, family or community members for shared goals"],
   micro_loans |->
     [name |-> FeatureName.Micro_Loans,
      description |-> "Small, accessible loans with simple application process and fair interest rates",
      ideal_for |-> "Users needing small amounts of credit for business or personal needs"],
   analytics_profile |->
     [name |-> FeatureName.Analytics_Profile,
      description |-> "Personalized financial insights and spending analysis to improve financial management",
      ideal_for |-> "Users who want to understand their spending patterns and improve budgeting"],
   financial_education |->
     [name |-> FeatureName.Financial_Education,
      description |-> "Courses, articles and workshops on financial literacy and management",
      ideal_for |-> "Users looking to improve their financial knowledge and decision-making"]]

\* the catalogue generate_fallback_recommendations installs on a service
\* that has none
fallback_features ==
  [digital_banking |->
     [name |-> FeatureName.Digital_Banking,
      description |-> "Secure digital banking services with UPI payments",
      ideal_for |-> "Users looking for convenient, modern banking"],
   mutual_funds |->
     [name |-> FeatureName.Mutual_Funds,
      description |-> "Simple investments in diversified mutual funds",
      ideal_for |-> "Users interested in growing wealth through investments"],
   community_savings |->
     [name |-> FeatureName.Community_Savings,
      description |-> "Group savings programs for community members",
      ideal_for |-> "Users who want to save with friends and family"],
   micro_loans |->
     [name |-> FeatureName.Micro_Loans,
      description |-> "Small, accessible loans with simple application",
      ideal_for |-> "Users needing small amounts of credit"],
   analytics_profile |->
     [name |-> FeatureName.Analytics_Profile,
      description |-> "Personalized financial insights and spending analysis",
      ideal_for |-> "Users who want to understand spending patterns"],
   financial_education |->
     [name |-> FeatureName.Financial_Education,
      description |-> "Courses and articles on financial literacy",
      ideal_for |-> "Users looking to improve financial knowledge"]]

feature_details ==
  [digital_banking |->
     [explanation |-> "Modern banking services for easy money management via mobile.",
      tip |-> "Start with basic UPI payments and bill payments to get comfortable."],
   mutual_funds |->
     [explanation |-> "Simple investment options to grow your wealth over time.",
      tip |-> "Begin with a SIP (Systematic Investment Plan) with as little as INR 500 per month."],
   community_savings |->
     [explanation |-> "Save together with family or community members for shared goals.",
      tip |-> "Create a savings group with 5-10 trusted people you know."],
   micro_loans |->
     [explanation |-> "Small loans for personal or business needs with simple application.",
      tip |-> "Start with a small loan amount to build your credit profile."],
   analytics_profile |->
     [explanation |-> "Track your spending and get personalized insights to manage money better.",
      tip |-> "Link your accounts to get a complete picture of your finances."],
   financial_education |->
     [explanation |-> "Learn essential financial skills through courses and articles.",
      tip |-> "Start with the basic modules on budgeting and saving."]]

\* ---------------------------------------------------------- Scoring Engine

DefaultIncomeLevel == "INR 30,000 - INR 60,000"

\* income_map.get(income_range, default); a list is unhashable and makes
\* dict.get raise TypeError
map_income_level(income_range) ==
  IF income_range.t = "list" THEN [raised |-> TRUE, value |-> ""]
  ELSE [raised |-> FALSE,
        value |->
          IF income_range.t # "str" THEN DefaultIncomeLevel
          ELSE CASE income_range.s = "income_low" -> "Below INR 15,000"
                 [] income_range.s = "income_medium_low" -> "INR 15,000 - INR 30,000"
                 [] income_range.s = "income_medium" -> "INR 30,000 - INR 60,000"
                 [] income_range.s = "income_medium_high" -> "INR 60,000 - INR 1,20,000"
                 [] income_range.s = "income_high" -> "Above INR 1,20,000"
                 [] OTHER -> DefaultIncomeLevel]

\* a rule set in which the two banking_habit rules share the habit "upi"
RawScore_habits_overlap(responses, f) ==
  LET goals == AsList(Get(responses, "financial_goals", List({})))
      banking_habit == Get(responses, "banking_habits", Str("traditional"))
      savings_methods == AsList(Get(responses, "savings_method", List({})))
      loan_need == Get(responses, "loan_needs", Str("no"))
      digital_comfort == Get(responses, "digital_comfort", Str("somewhat"))
      tracking_interest == Get(responses, "tracking_interest", Num(3))
      knowledge_level == Get(responses, "financial_knowledge", Str("beginner"))
      B(cond, pts) == IF cond THEN pts ELSE 0
  IN CASE f = "digital_banking" ->
            5 + B(InTags(digital_comfort, {"very", "somewhat"}), 3)
              + B(InTags(banking_habit, {"mobile", "upi", "net_banking"}), 2)
              + B(InTags(banking_habit, {"traditional", "atm", "limited", "upi"}), 1)
       [] f = "mutual_funds" ->
            5 + B(Has("invest", goals), 3)
              + B(Has("mutual_funds", savings_methods), 2)
              + B(InTags(knowledge_level, {"intermediate", "advanced"}), 1)
       [] f = "community_savings" ->
            5 + B(Has("community", goals), 3)
              + B(Has("chit", savings_methods), 3)
              + B(Has("save", goals), 1)
       [] f = "micro_loans" ->
            5 + B(InTags(loan_need, {"current", "future"}), 4)
              + B(Has("loan", goals), 3)
       [] f = "analytics_profile" ->
            5 + B(Has("track", goals), 3)
              + (IF tracking_interest.t = "num" /\ tracking_interest.n >= 4 THEN 3
                 ELSE IF tracking_interest.t = "num" /\ tracking_interest.n >= 3 THEN 1
                 ELSE 0)
       [] f = "financial_education" ->
            5 + B(Has("education", goals), 4)
              + B(InTags(knowledge_level, {"beginner", "basic"}), 2)

\* the score a feature has before clamping: 5 plus every rule that fires
\* (lines 656-710)
RawScore(responses, f) ==
  LET goals == AsList(Get(responses, "financial_goals", List({})))
      banking_habit == Get(responses, "banking_habits", Str("traditional"))
      savings_methods == AsList(Get(responses, "savings_method", List({})))
      loan_need == Get(responses, "loan_needs", Str("no"))
      digital_comfort == Get(responses, "digital_comfort", Str("somewhat"))
      tracking_interest == Get(responses, "tracking_interest", Num(3))
      knowledge_level == Get(responses, "financial_knowledge", Str("beginner"))
      B(cond, pts) == IF cond THEN pts ELSE 0
  IN CASE f = "digital_banking" ->
            5 + B(InTags(digital_comfort, {"very", "somewhat"}), 3)
              + B(InTags(banking_habit, {"mobile", "upi", "net_banking"}), 2)
              + B(InTags(banking_habit, {"traditional", "atm", "limited"}), 1)
       [] f = "mutual_funds" ->
            5 + B(Has("invest", goals), 3)
              + B(Has("mutual_funds", savings_methods), 2)
              + B(InTags(knowledge_level, {"intermediate", "advanced"}), 1)
       [] f = "community_savings" ->
            5 + B(Has("community", goals), 3)
              + B(Has("chit", savings_methods), 3)
              + B(Has("save", goals), 1)
       [] f = "micro_loans" ->
            5 + B(InTags(loan_need, {"current", "future"}), 4)
              + B(Has("loan", goals), 3)
       [] f = "analytics_profile" ->
            5 + B(Has("track", goals), 3)
              + (IF tracking_interest.t = "num" /\ tracking_interest.n >= 4 THEN 3
                 ELSE IF tracking_interest.t = "num" /\ tracking_interest.n >= 3 THEN 1
                 ELSE 0)
       [] f = "financial_education" ->
            5 + B(Has("education", goals), 4)
              + B(InTags(knowledge_level, {"beginner", "basic"}), 2)

\* max(1, min(10, score)) (line 714)
Clamp(score) == Max(1, Min(10, score))

feature_scores(responses) ==
  [f \in {FeatureIds[i] : i \in 1..Len(FeatureIds)} |-> Clamp(RawScore(responses, f))]

\* sorted(items, key = score, reverse = True): Python's sort is stable, and
\* with reverse = True elements of equal key keep their original order
RECURSIVE InsertDesc(_, _, _)
InsertDesc(done, x, key) ==
  IF done = <<>> THEN <<x>>
  ELSE IF key[Head(done)] >= key[x] THEN <<Head(done)>> \o InsertDesc(Tail(done), x, key)
  ELSE <<x>> \o done

RECURSIVE InsertDescTiesFirst(_, _, _)
InsertDescTiesFirst(done, x, key) ==
  IF done = <<>> THEN <<x>>
  ELSE IF key[Head(done)] > key[x] THEN <<Head(done)>> \o InsertDescTiesFirst(Tail(done), x, key)
  ELSE <<x>> \o done

RECURSIVE SortFrom(_, _, _, _)
SortFrom(items, i, done, key) ==
  IF i > Len(items) THEN done
  ELSE SortFrom(items, i + 1, InsertDesc(done, items[i], key), key)

RECURSIVE SortFromTiesFirst(_, _, _, _)
SortFromTiesFirst(items, i, done, key) ==
  IF i > Len(items) THEN done
  ELSE SortFromTiesFirst(items, i + 1, InsertDescTiesFirst(done, items[i], key), key)

\* the order a sort written as sort-ascending-then-reverse would give: equal
\* keys come out in reverse of their original order
sorted_reverse_unstable(items, key) == SortFromTiesFirst(items, 1, <<>>, key)

\* sorted(..., key=..., reverse=True) of lines 755-764
sorted_reverse(items, key) == SortFrom(items, 1, <<>>, key)

\* a RecommendationResult; shape "empty" is the dict {}
EmptyResult ==
  [shape |-> "empty", prioritized_features |-> <<>>,
   user_profile |-> [knowledge_level |-> Absent, income_level |-> ""]]

\* the list of FeatureScore dicts built from the sorted feature ids
FeatureList(order, scores, explanation, tip) ==
  [i \in 1..Len(order) |->
     [id |-> order[i],
      name |-> finergize_features[order[i]].name,
      score |-> Num(scores[order[i]]),
      explanation |-> explanation[order[i]],
      tip |-> tip[order[i]]]]

\* RecommenderService.generate_fallback_recommendations and
\* FinergizeRecommenderAgent.generate_fallback_recommendations, which are the
\* same code; [raised, value]
generate_fallback_recommendations(responses) ==
  Let(feature_scores(responses), LAMBDA scores :
  Let(sorted_reverse(FeatureIds, scores), LAMBDA order :
  Let(map_income_level(Get(responses, "income_range", Str("income_medium"))), LAMBDA income :
    IF income.raised THEN [raised |-> TRUE, value |-> EmptyResult]
    ELSE [raised |-> FALSE,
          value |->
            [shape |-> "full",
             prioritized_features |->
               FeatureList(order, scores,
                           [f \in DOMAIN feature_details |-> feature_details[f].explanation],
                           [f \in DOMAIN feature_details |-> feature_details[f].tip]),
             user_profile |->
               [knowledge_level |-> Get(responses, "financial_knowledge", Str("beginner")),
                income_level |-> income.value]]])))

\* BasicModel.recommend_features: the default model's own algorithm
BasicModel_score(responses, f) ==
  5 + (IF f = "financial_education"
          /\ InTags(responses["financial_knowledge"], {"beginner", "basic"}) THEN 3 ELSE 0)
    + (IF f = "digital_banking"
          /\ InTags(responses["digital_comfort"], {"very", "somewhat"}) THEN 2 ELSE 0)

BasicModel_recommend_features(responses) ==
  Let([f \in DOMAIN finergize_features |-> BasicModel_score(responses, f)], LAMBDA scores :
  Let(sorted_reverse(FeatureIds, scores), LAMBDA order :
    [raised |-> FALSE,
     value |->
       [shape |-> "full",
        prioritized_features |->
          FeatureList(order, scores,
                      [f \in DOMAIN finergize_features |-> finergize_features[f].description],
                      [f \in DOMAIN finergize_features |-> finergize_features[f].ideal_for]),
        user_profile |->
          [knowledge_level |-> Get(responses, "financial_knowledge", Str("beginner")),
           income_level |-> "Estimated from responses"]]]))

\* FinergizeRecommenderAgent.recommend_features delegates to its fallback
Agent_recommend_features(responses) == generate_fallback_recommendations(responses)

\* DynamicFinergizeRecommenderAgent.recommend_features returns {}
Dynamic_recommend_features(responses) == [raised |-> FALSE, value |-> EmptyResult]

\* self.model.recommend_features(responses), by the class of the model
Model_recommend_features(kind, responses) ==
  CASE kind = "basic" -> BasicModel_recommend_features(responses)
    [] kind \in {"agent", "stale_agent"} -> Agent_recommend_features(responses)
    [] kind = "dynamic" -> Dynamic_recommend_features(responses)

\* ------------------------------------------------------------------- texts

UpperCase ==
  <<"A","B","C","D","E","F","G","H","I","J","K","L","M",
    "N","O","P","Q","R","S","T","U","V","W","X","Y","Z">>
LowerCase ==
  <<"a","b","c","d","e","f","g","h","i","j","k","l","m",
    "n","o","p","q","r","s","t","u","v","w","x","y","z">>

\* str.lower()
LowerChar(c) ==
  IF \E i \in 1..26 : UpperCase[i] = c
  THEN LowerCase[CHOOSE i \in 1..26 : UpperCase[i] = c]
  ELSE c
lower(text) == [i \in 1..Len(text) |-> LowerChar(text[i])]

\* sub in text
Contains(text, sub) ==
  \E i \in 1..(Len(text) - Len(sub) + 1) : SubSeq(text, i, i + Len(sub) - 1) = sub

\* str.replace(old, new): every non-overlapping occurrence, left to right
RECURSIVE replace(_, _, _)
replace(text, old, new) ==
  IF Len(text) < Len(old) \/ old = <<>> THEN text
  ELSE IF SubSeq(text, 1, Len(old)) = old
       THEN new \o replace(SubSeq(text, Len(old) + 1, Len(text)), old, new)
       ELSE <<Head(text)>> \o replace(Tail(text), old, new)

\* the literals the keyword chains of enhance_for_accessibility,
\* generate_help_text and assign_option_icon search for (lines 366-452)
Keyword ==
  [financial_goals |-> <<"f","i","n","a","n","c","i","a","l"," ","g","o","a","l","s">>,
   income |-> <<"i","n","c","o","m","e">>,
   risk |-> <<"r","i","s","k">>,
   knowledge |-> <<"k","n","o","w","l","e","d","g","e">>,
   banking |-> <<"b","a","n","k","i","n","g">>,
   save |-> <<"s","a","v","e">>,
   loan |-> <<"l","o","a","n">>,
   digital |-> <<"d","i","g","i","t","a","l">>,
   tracking |-> <<"t","r","a","c","k","i","n","g">>,
   banking_habits |-> <<"b","a","n","k","i","n","g"," ","h","a","b","i","t","s">>,
   save_money |-> <<"s","a","v","e"," ","m","o","n","e","y">>,
   emergency |-> <<"e","m","e","r","g","e","n","c","y">>,
   bank |-> <<"b","a","n","k">>,
   invest |-> <<"i","n","v","e","s","t">>,
   growth |-> <<"g","r","o","w","t","h">>,
   mutual |-> <<"m","u","t","u","a","l">>,
   borrow |-> <<"b","o","r","r","o","w">>,
   education |-> <<"e","d","u","c","a","t","i","o","n">>,
   learn |-> <<"l","e","a","r","n">>,
   retirement |-> <<"r","e","t","i","r","e","m","e","n","t">>,
   community |-> <<"c","o","m","m","u","n","i","t","y">>,
   chit |-> <<"c","h","i","t">>,
   group |-> <<"g","r","o","u","p">>,
   track |-> <<"t","r","a","c","k">>,
   analytics |-> <<"a","n","a","l","y","t","i","c","s">>,
   spending |-> <<"s","p","e","n","d","i","n","g">>,
   mobile |-> <<"m","o","b","i","l","e">>,
   app |-> <<"a","p","p">>,
   conservative |-> <<"c","o","n","s","e","r","v","a","t","i","v","e">>,
   low |-> <<"l","o","w">>,
   aggressive |-> <<"a","g","g","r","e","s","s","i","v","e">>,
   high |-> <<"h","i","g","h">>,
   financial |-> <<"f","i","n","a","n","c","i","a","l">>,
   investment |-> <<"i","n","v","e","s","t","m","e","n","t">>,
   money |-> <<"m","o","n","e","y">>,
   saving_money |-> <<"s","a","v","i","n","g"," ","m","o","n","e","y">>]

\* the question texts of question_templates (lines 156-257)
QuestionText ==
   \* "What are your primary financial goals?"
  [financial_goals |-> <<"W","h","a","t"," ","a","r","e"," ","y","o","u","r"," ","p","r","i","m","a","r","y"," ","f","i","n","a","n","c","i","a","l"," ","g","o","a","l","s","?">>,
   \* "What is your monthly income range?"
   income_range |-> <<"W","h","a","t"," ","i","s"," ","y","o","u","r"," ","m","o","n","t","h","l","y"," ","i","n","c","o","m","e"," ","r","a","n","g","e","?">>,
   \* "How would you rate your financial knowledge?"
   financial_knowledge |-> <<"H","o","w"," ","w","o","u","l","d"," ","y","o","u"," ","r","a","t","e"," ","y","o","u","r"," ","f","i","n","a","n","c","i","a","l"," ","k","n","o","w","l","e","d","g","e","?">>,
   \* "How do you currently do most of your banking?"
   banking_habits |-> <<"H","o","w"," ","d","o"," ","y","o","u"," ","c","u","r","r","e","n","t","l","y"," ","d","o"," ","m","o","s","t"," ","o","f"," ","y","o","u","r"," ","b","a","n","k","i","n","g","?">>,
   \* "How do you currently save money?"
   savings_method |-> <<"H","o","w"," ","d","o"," ","y","o","u"," ","c","u","r","r","e","n","t","l","y"," ","s","a","v","e"," ","m","o","n","e","y","?">>,
   \* "Do you currently need or expect to need a small loan?"
   loan_needs |-> <<"D","o"," ","y","o","u"," ","c","u","r","r","e","n","t","l","y"," ","n","e","e","d"," ","o","r"," ","e","x","p","e","c","t"," ","t","o"," ","n","e","e","d"," ","a"," ","s","m","a","l","l"," ","l","o","a","n","?">>,
   \* "How comfortable are you using digital/mobile financial apps?"
   digital_comfort |-> <<"H","o","w"," ","c","o","m","f","o","r","t","a","b","l","e"," ","a","r","e"," ","y","o","u"," ","u","s","i","n","g"," ","d","i","g","i","t","a","l","/","m","o","b","i","l","e"," ","f","i","n","a","n","c","i","a","l"," ","a","p","p","s","?">>,
   \* "How interested are you in tracking and analyzing your spending habits?"
   tracking_interest |-> <<"H","o","w"," ","i","n","t","e","r","e","s","t","e","d"," ","a","r","e"," ","y","o","u"," ","i","n"," ","t","r","a","c","k","i","n","g"," ","a","n","d"," ","a","n","a","l","y","z","i","n","g"," ","y","o","u","r"," ","s","p","e","n","d","i","n","g"," ","h","a","b","i","t","s","?">>]

\* self.question_templates of the default model (lines 156-257) and of a
\* bundle (update_model.py lines 58-159): the same eight templates
BaseQuestionTemplates ==
  [ financial_goals |-> [id |-> "financial_goals", question |-> QuestionText.financial_goals, type |-> "multiple-choice",
        options |-> <<[id |-> "save", text |->
              <<"S","a","v","e"," ","f","o","r"," ","e","m","e","r","g","e","n","c","i","e","s">>],
           [id |-> "invest", text |->
              <<"I","n","v","e","s","t"," ","f","o","r"," ","l","o","n","g","-","t","e","r","m"," ","g","r","o","w","t","h">>],
           [id |-> "loan", text |->
              <<"G","e","t"," ","a"," ","s","m","a","l","l"," ","l","o","a","n"," ","f","o","r"," ","s","p","e","c","i","f","i","c"," ","n","e","e","d","s">>],
           [id |-> "education", text |->
              <<"L","e","a","r","n"," ","m","o","r","e"," ","a","b","o","u","t"," ","f","i","n","a","n","c","i","a","l"," ","m","a","n","a","g","e","m","e","n","t">>],
           [id |-> "community", text |->
              <<"S","a","v","e"," ","w","i","t","h"," ","f","a","m","i","l","y"," ","o","r"," ","c","o","m","m","u","n","i","t","y"," ","m","e","m","b","e","r","s">>],
           [id |-> "track", text |->
              <<"T","r","a","c","k"," ","a","n","d"," ","m","a","n","a","g","e"," ","m","y"," ","s","p","e","n","d","i","n","g"," ","b","e","t","t","e","r">>]>>],
    income_range |-> [id |-> "income_range", question |-> QuestionText.income_range, type |-> "single-choice",
        options |-> <<[id |-> "income_low", text |->
              <<"B","e","l","o","w"," ","INR","1","5",",","0","0","0">>],
           [id |-> "income_medium_low", text |->
              <<"INR","1","5",",","0","0","0"," ","-"," ","INR","3","0",",","0","0","0">>],
           [id |-> "income_medium", text |->
              <<"INR","3","0",",","0","0","0"," ","-"," ","INR","6","0",",","0","0","0">>],
           [id |-> "income_medium_high", text |->
              <<"INR","6","0",",","0","0","0"," ","-"," ","INR","1",",","2","0",",","0","0","0">>],
           [id |-> "income_high", text |->
              <<"A","b","o","v","e"," ","INR","1",",","2","0",",","0","0","0">>]>>],
    financial_knowledge |-> [id |-> "financial_knowledge", question |-> QuestionText.financial_knowledge, type |-> "single-choice",
        options |-> <<[id |-> "beginner", text |->
              <<"B","e","g","i","n","n","e","r"," ","-"," ","I"," ","k","n","o","w"," ","v","e","r","y"," ","l","i","t","t","l","e">>],
           [id |-> "basic", text |->
              <<"B","a","s","i","c"," ","-"," ","I"," ","u","n","d","e","r","s","t","a","n","d"," ","f","u","n","d","a","m","e","n","t","a","l"," ","c","o","n","c","e","p","t","s">>],
           [id |-> "intermediate", text |->
              <<"I","n","t","e","r","m","e","d","i","a","t","e"," ","-"," ","I"," ","c","a","n"," ","m","a","k","e"," ","i","n","f","o","r","m","e","d"," ","d","e","c","i","s","i","o","n","s">>],
           [id |-> "advanced", text |->
              <<"A","d","v","a","n","c","e","d"," ","-"," ","I"," ","u","n","d","e","r","s","t","a","n","d"," ","c","o","m","p","l","e","x"," ","f","i","n","a","n","c","i","a","l"," ","p","r","o","d","u","c","t","s">>]>>],
    banking_habits |-> [id |-> "banking_habits", question |-> QuestionText.banking_habits, type |-> "single-choice",
        options |-> <<[id |-> "traditional", text |->
              <<"T","r","a","d","i","t","i","o","n","a","l"," ","b","a","n","k"," ","b","r","a","n","c","h","e","s">>],
           [id |-> "atm", text |->
              <<"A","T","M","s">>],
           [id |-> "net_banking", text |->
              <<"N","e","t"," ","b","a","n","k","i","n","g"," ","o","n"," ","c","o","m","p","u","t","e","r">>],
           [id |-> "mobile", text |->
              <<"M","o","b","i","l","e"," ","b","a","n","k","i","n","g"," ","a","p","p","s">>],
           [id |-> "upi", text |->
              <<"U","P","I"," ","a","p","p","s"," ","(","G","o","o","g","l","e"," ","P","a","y",","," ","P","h","o","n","e","P","e",","," ","e","t","c",".",")">>],
           [id |-> "limited", text |->
              <<"I"," ","h","a","v","e"," ","l","i","m","i","t","e","d"," ","b","a","n","k","i","n","g"," ","a","c","c","e","s","s">>]>>],
    savings_method |-> [id |-> "savings_method", question |-> QuestionText.savings_method, type |-> "multiple-choice",
        options |-> <<[id |-> "bank", text |->
              <<"B","a","n","k"," ","s","a","v","i","n","g","s"," ","a","c","c","o","u","n","t">>],
           [id |-> "cash", text |->
              <<"C","a","s","h"," ","a","t"," ","h","o","m","e">>],
           [id |-> "fd", text |->
              <<"F","i","x","e","d"," ","d","e","p","o","s","i","t","s">>],
           [id |-> "post", text |->
              <<"P","o","s","t"," ","o","f","f","i","c","e"," ","s","c","h","e","m","e","s">>],
           [id |-> "chit", text |->
              <<"C","h","i","t"," ","f","u","n","d","s","/","c","o","m","m","u","n","i","t","y"," ","s","a","v","i","n","g","s">>],
           [id |-> "gold", text |->
              <<"G","o","l","d","/","j","e","w","e","l","r","y">>],
           [id |-> "mutual_funds", text |->
              <<"M","u","t","u","a","l"," ","f","u","n","d","s">>],
           [id |-> "stocks", text |->
              <<"D","i","r","e","c","t"," ","s","t","o","c","k","s">>],
           [id |-> "no_savings", text |->
              <<"I"," ","d","o","n","'","t"," ","s","a","v","e"," ","r","e","g","u","l","a","r","l","y">>]>>],
    loan_needs |-> [id |-> "loan_needs", question |-> QuestionText.loan_needs, type |-> "single-choice",
        options |-> <<[id |-> "current", text |->
              <<"Y","e","s",","," ","I"," ","c","u","r","r","e","n","t","l","y"," ","n","e","e","d"," ","a"," ","s","m","a","l","l"," ","l","o","a","n">>],
           [id |-> "future", text |->
              <<"N","o","t"," ","n","o","w",","," ","b","u","t"," ","m","i","g","h","t"," ","i","n"," ","t","h","e"," ","n","e","a","r"," ","f","u","t","u","r","e">>],
           [id |-> "no", text |->
              <<"N","o",","," ","I"," ","d","o","n","'","t"," ","e","x","p","e","c","t"," ","t","o"," ","n","e","e","d"," ","a"," ","l","o","a","n">>]>>],
    digital_comfort |-> [id |-> "digital_comfort", question |-> QuestionText.digital_comfort, type |-> "single-choice",
        options |-> <<[id |-> "very", text |->
              <<"V","e","r","y"," ","c","o","m","f","o","r","t","a","b","l","e"," ","-"," ","I"," ","u","s","e"," ","m","u","l","t","i","p","l","e"," ","a","p","p","s"," ","r","e","g","u","l","a","r","l","y">>],
           [id |-> "somewhat", text |->
              <<"S","o","m","e","w","h","a","t"," ","c","o","m","f","o","r","t","a","b","l","e"," ","-"," ","I"," ","u","s","e"," ","b","a","s","i","c"," ","f","e","a","t","u","r","e","s">>],
           [id |-> "limited", text |->
              <<"L","i","m","i","t","e","d"," ","c","o","m","f","o","r","t"," ","-"," ","I"," ","u","s","e"," ","t","h","e","m"," ","w","i","t","h"," ","h","e","l","p">>],
           [id |-> "uncomfortable", text |->
              <<"U","n","c","o","m","f","o","r","t","a","b","l","e"," ","-"," ","I"," ","p","r","e","f","e","r"," ","n","o","t"," ","t","o"," ","u","s","e"," ","t","h","e","m">>]>>],
    tracking_interest |-> [id |-> "tracking_interest", question |-> QuestionText.tracking_interest, type |-> "slider",
        options |-> <<>>] ]

\* -------------------------------------------------- Accessibility Transform

\* the value of a key a dict does not hold
NoKey == "(no key)"
NoText == [set |-> FALSE, text |-> "", chars |-> <<>>]
Text(x) == [set |-> TRUE, text |-> x, chars |-> <<>>]
Chars(x) == [set |-> TRUE, text |-> "", chars |-> x]

\* the simplified_question chain of enhance_for_accessibility (lines 367-388)
simplified_question(question) ==
  LET q == lower(question)
  IN IF Contains(q, Keyword.financial_goals) THEN Text("What do you want to do with your money?")
       ELSE IF Contains(q, Keyword.income) THEN Text("How much money do you get each month?")
       ELSE IF Contains(q, Keyword.risk) THEN Text("How okay are you if your money goes up and down?")
       ELSE IF Contains(q, Keyword.knowledge) THEN Text("How much do you know about money?")
       ELSE IF Contains(q, Keyword.banking) THEN Text("How do you use banks now?")
       ELSE IF Contains(q, Keyword.save) THEN Text("How do you keep your savings?")
       ELSE IF Contains(q, Keyword.loan) THEN Text("Do you need to borrow money?")
       ELSE IF Contains(q, Keyword.digital) THEN Text("Do you use money apps on your phone?")
       ELSE IF Contains(q, Keyword.tracking) THEN Text("Do you want to see where your money goes?")
       ELSE Chars(replace(replace(question, Keyword.financial, Keyword.money),
                                 Keyword.investment, Keyword.saving_money))

generate_help_text(question) ==
  LET question_text == lower(question)
  IN IF Contains(question_text, Keyword.financial_goals) THEN
            "These are things you want to do with your money in the future."
       ELSE IF Contains(question_text, Keyword.income) THEN
            "This is how much money you get each month from your job or business."
       ELSE IF Contains(question_text, Keyword.risk) THEN
            "Lower risk means your money is safer but grows slower. Higher risk means it might grow faster but could also lose value."
       ELSE IF Contains(question_text, Keyword.knowledge) THEN
            "How much you know about money and financial matters."
       ELSE IF Contains(question_text, Keyword.banking_habits) THEN
            "How you currently use banking services for your money needs."
       ELSE IF Contains(question_text, Keyword.save_money) THEN
            "Different ways to keep your savings safe and growing."
       ELSE IF Contains(question_text, Keyword.loan) THEN
            "Whether you need to borrow money for personal or business needs."
       ELSE IF Contains(question_text, Keyword.digital) THEN
            "How comfortable you are using apps on your phone for money management."
       ELSE IF Contains(question_text, Keyword.tracking) THEN
            "Understanding where your money goes each month."
       ELSE "Please select the option that best describes your situation."

\* an icon chain that looks for the loan words before the saving words
assign_option_icon_loan_first(text) ==
  LET option_text == lower(text)
      In(k) == Contains(option_text, k)
  IN IF In(Keyword.loan) \/ In(Keyword.borrow) THEN "bank"
       ELSE IF In(Keyword.save) \/ In(Keyword.emergency) \/ In(Keyword.bank) THEN "money bag"
       ELSE IF In(Keyword.invest) \/ In(Keyword.growth) \/ In(Keyword.mutual) THEN "chart increasing"
       ELSE IF In(Keyword.education) \/ In(Keyword.learn) THEN "books"
       ELSE IF In(Keyword.retirement) THEN "palm tree"
       ELSE IF In(Keyword.community) \/ In(Keyword.chit) \/ In(Keyword.group) THEN "family"
       ELSE IF In(Keyword.track) \/ In(Keyword.analytics) \/ In(Keyword.spending) THEN "bar chart"
       ELSE IF In(Keyword.digital) \/ In(Keyword.mobile) \/ In(Keyword.app) THEN "mobile phone"
       ELSE IF In(Keyword.conservative) \/ In(Keyword.low) THEN "shield"
       ELSE IF In(Keyword.aggressive) \/ In(Keyword.high) THEN "rocket"
       ELSE "check mark"

\* icons are named here by what the emoji shows
assign_option_icon(text) ==
  LET option_text == lower(text)
      In(k) == Contains(option_text, k)
  IN IF In(Keyword.save) \/ In(Keyword.emergency) \/ In(Keyword.bank) THEN "money bag"
       ELSE IF In(Keyword.invest) \/ In(Keyword.growth) \/ In(Keyword.mutual) THEN "chart increasing"
       ELSE IF In(Keyword.loan) \/ In(Keyword.borrow) THEN "bank"
       ELSE IF In(Keyword.education) \/ In(Keyword.learn) THEN "books"
       ELSE IF In(Keyword.retirement) THEN "palm tree"
       ELSE IF In(Keyword.community) \/ In(Keyword.chit) \/ In(Keyword.group) THEN "family"
       ELSE IF In(Keyword.track) \/ In(Keyword.analytics) \/ In(Keyword.spending) THEN "bar chart"
       ELSE IF In(Keyword.digital) \/ In(Keyword.mobile) \/ In(Keyword.app) THEN "mobile phone"
       ELSE IF In(Keyword.conservative) \/ In(Keyword.low) THEN "shield"
       ELSE IF In(Keyword.aggressive) \/ In(Keyword.high) THEN "rocket"
       ELSE "check mark"

\* the eight question ids in the order generate_survey appends them
SurveyOrder ==
  <<"financial_goals", "income_range", "financial_knowledge", "banking_habits",
    "savings_method", "loan_needs", "digital_comfort", "tracking_interest">>

NoIcons == [q \in DOMAIN BaseQuestionTemplates |->
              [i \in 1..Len(BaseQuestionTemplates[q].options) |-> NoKey]]

\* a template dict as a request sees it: the template with the icons its
\* option dicts hold now
Question(icons, q) ==
  [id |-> BaseQuestionTemplates[q].id,
   question |-> BaseQuestionTemplates[q].question,
   type |-> BaseQuestionTemplates[q].type,
   simplified_question |-> NoText,
   help_text |-> NoKey,
   options |-> [i \in 1..Len(BaseQuestionTemplates[q].options) |->
                  [id |-> BaseQuestionTemplates[q].options[i].id,
                   text |-> BaseQuestionTemplates[q].options[i].text,
                   icon |-> icons[q][i]]]]

\* BasicModel.generate_survey and FinergizeRecommenderAgent.generate_survey:
\* the ids of the template dicts the list refers to
Templates_generate_survey(user_context) == SurveyOrder

\* DynamicFinergizeRecommenderAgent.generate_survey returns []
Dynamic_generate_survey(user_context) == <<>>

Model_generate_survey(kind, user_context) ==
  IF kind = "dynamic" THEN Dynamic_generate_survey(user_context)
  ELSE Templates_generate_survey(user_context)

\* self.question_templates["..."] raises KeyError in an agent whose
\* templates lack an entry (update_model.py lines 180-187)
Model_generate_survey_raises(kind) == kind = "stale_agent"

\* the service object has a question_templates attribute only when
\* initialize_default_model ran (line 156)
service_has_question_templates(kind) == kind = "basic"

\* what the transform computes for each template; the texts are fixed, so
\* each is computed once
TemplateIcons ==
  [q \in DOMAIN BaseQuestionTemplates |->
     [i \in 1..Len(BaseQuestionTemplates[q].options) |->
        assign_option_icon(BaseQuestionTemplates[q].options[i].text)]]
TemplateSimplified ==
  [q \in DOMAIN BaseQuestionTemplates |-> simplified_question(BaseQuestionTemplates[q].question)]
TemplateHelp ==
  [q \in DOMAIN BaseQuestionTemplates |-> generate_help_text(BaseQuestionTemplates[q].question)]

\* the icons of the shared option dicts after enhance_for_accessibility ran
\* over `questions`: q.copy() is shallow, so option["icon"] = ... writes the
\* template's own option dicts (lines 394-396)
IconsAfterEnhance(icons, questions) ==
  [q \in DOMAIN icons |->
     IF \E k \in 1..Len(questions) : questions[k] = q THEN TemplateIcons[q] ELSE icons[q]]

\* a transform that also rewrites the question text of the copy
enhance_for_accessibility_rewriting(icons, questions) ==
  [k \in 1..Len(questions) |->
     [Question(IconsAfterEnhance(icons, questions), questions[k]) EXCEPT
        !.question = lower(@),
        !.simplified_question = TemplateSimplified[questions[k]],
        !.help_text = TemplateHelp[questions[k]]]]

\* enhance_for_accessibility: the enhanced copies, read when the response is
\* serialised, that is after every write of the loop
enhance_for_accessibility(icons, questions) ==
  [k \in 1..Len(questions) |->
     [Question(IconsAfterEnhance(icons, questions), questions[k]) EXCEPT
        !.simplified_question = TemplateSimplified[questions[k]],
        !.help_text = TemplateHelp[questions[k]]]]

\* a generate_survey that also transforms for the oldest age group
generate_survey_by_age(kind, icons, user_context) ==
  LET questions == Model_generate_survey(kind, user_context)
  IN IF user_context.literacy_level = "low" \/ user_context.age = "55+"
     THEN [questions |-> enhance_for_accessibility(icons, questions),
           icons |-> IconsAfterEnhance(icons, questions), raised |-> FALSE]
     ELSE [questions |-> [k \in 1..Len(questions) |-> Question(icons, questions[k])],
           icons |-> icons, raised |-> FALSE]

\* RecommenderService.generate_survey: [questions, icons, raised], the list
\* returned, the icons the templates hold afterwards, and whether the call
\* raised; the except branch returns list(self.question_templates.values())
\* and raises AttributeError when the service has no such attribute
generate_survey(kind, icons, user_context) ==
  LET questions == Model_generate_survey(kind, user_context)
  IN IF Model_generate_survey_raises(kind)
     THEN IF service_has_question_templates(kind)
          THEN [questions |-> [k \in 1..Len(SurveyOrder) |-> Question(icons, SurveyOrder[k])],
                icons |-> icons, raised |-> FALSE]
          ELSE [questions |-> <<>>, icons |-> icons, raised |-> TRUE]
     ELSE IF user_context.literacy_level = "low"
     THEN [questions |-> enhance_for_accessibility(icons, questions),
           icons |-> IconsAfterEnhance(icons, questions), raised |-> FALSE]
     ELSE [questions |-> [k \in 1..Len(questions) |-> Question(icons, questions[k])],
           icons |-> icons, raised |-> FALSE]


\* ---------------------------------------------------------- construction

NoApiKey == ""

\* RecommenderService.initialize_default_model: BasicModel(features,
\* templates, history, key is not None, key)
initialize_default_model(e) ==
  [kind |-> "basic",
   has_api |-> e.OPENAI_API_KEY # NoApiKey,
   api_key |-> e.OPENAI_API_KEY]

\* RecommenderService.load_model: the model object by what happens to the
\* bundle file: "missing" raises FileNotFoundError, "standard" is loaded by
\* joblib.load, "custom" makes joblib.load raise AttributeError or
\* ImportError and is loaded by CustomUnpickler (a
\* DynamicFinergizeRecommenderAgent carrying the pickled attributes),
\* "custom_fails" makes CustomUnpickler raise as well, "stale" is loaded by
\* joblib.load as an agent whose pickled question_templates lack an entry
load_model(e) ==
  CASE e.bundle = "standard" ->
         [kind |-> "agent", has_api |-> e.bundle_has_api, api_key |-> e.bundle_api_key]
    [] e.bundle = "stale" ->
         [kind |-> "stale_agent", has_api |-> e.bundle_has_api, api_key |-> e.bundle_api_key]
    [] e.bundle = "custom" ->
         [kind |-> "dynamic", has_api |-> e.bundle_has_api, api_key |-> e.bundle_api_key]
    [] e.bundle \in {"missing", "custom_fails"} -> initialize_default_model(e)

\* RecommenderService.__init__ after load_model (lines 52-75): with a key in
\* the environment the key is injected into the model
Service_init(e) ==
  LET loaded == load_model(e)
      keyed == e.OPENAI_API_KEY # NoApiKey
  IN [model |-> IF keyed
                THEN [loaded EXCEPT !.api_key = e.OPENAI_API_KEY, !.has_api = TRUE]
                ELSE loaded,
      has_api |-> keyed,
      svc_features |-> IF loaded.kind = "basic" THEN "default" ELSE "none"]

\* ------------------------------------------------------------ Remote Scorer

\* the key sorted() orders a reply entry by: x[1].get('score', 0)
SortKey(entry) == IF entry.score.t = "absent" THEN Num(0) ELSE entry.score

\* sorted() raises TypeError when it compares keys Python cannot order: None
\* with anything, a string with a number
SortRaises(entries) ==
  /\ Len(entries) >= 2
  /\ \/ \E i \in 1..Len(entries) : SortKey(entries[i]).t \notin {"num", "str"}
     \/ \E i, j \in 1..Len(entries) : SortKey(entries[i]).t # SortKey(entries[j]).t

\* the keys a reply's JSON object may carry, with their characters
KeyChars ==
     ("digital_banking" :> <<"d","i","g","i","t","a","l","_","b","a","n","k","i","n","g">>)
  @@ ("mutual_funds" :> <<"m","u","t","u","a","l","_","f","u","n","d","s">>)
  @@ ("community_savings" :> <<"c","o","m","m","u","n","i","t","y","_","s","a","v","i","n","g","s">>)
  @@ ("micro_loans" :> <<"m","i","c","r","o","_","l","o","a","n","s">>)
  @@ ("analytics_profile" :> <<"a","n","a","l","y","t","i","c","s","_","p","r","o","f","i","l","e">>)
  @@ ("financial_education" :> <<"f","i","n","a","n","c","i","a","l","_","e","d","u","c","a","t","i","o","n">>)
  @@ ("Digital Banking" :> <<"D","i","g","i","t","a","l"," ","B","a","n","k","i","n","g">>)
  @@ ("savings" :> <<"s","a","v","i","n","g","s">>)
  @@ ("crypto_wallet" :> <<"c","r","y","p","t","o","_","w","a","l","l","e","t">>)

UpperChar(c) ==
  IF \E i \in 1..26 : LowerCase[i] = c
  THEN UpperCase[CHOOSE i \in 1..26 : LowerCase[i] = c]
  ELSE c
IsLetter(c) == \E i \in 1..26 : LowerCase[i] = c \/ UpperCase[i] = c

\* str.strip() of the blanks at both ends
RECURSIVE strip(_)
strip(text) ==
  IF text = <<>> THEN text
  ELSE IF Head(text) = " " THEN strip(Tail(text))
  ELSE IF text[Len(text)] = " " THEN strip(SubSeq(text, 1, Len(text) - 1))
  ELSE text

\* str.title(): a letter that follows a non-letter is upper-cased, every
\* other letter lower-cased
title(text) ==
  [i \in 1..Len(text) |->
     IF i = 1 \/ ~IsLetter(text[i - 1]) THEN UpperChar(text[i]) ELSE LowerChar(text[i])]

\* RecommenderService.get_features: the model's catalogue; every model the
\* service can hold carries one
get_features == finergize_features

\* RecommenderService.get_feature_name (lines 582-602)
RECURSIVE PartialMatch(_, _)
PartialMatch(feature_id, i) ==
  IF i > Len(FeatureIds) THEN title(replace(feature_id, <<"_">>, <<" ">>))
  ELSE LET key == KeyChars[FeatureIds[i]]
           name == get_features[FeatureIds[i]].name
       IN IF Contains(feature_id, key) \/ Contains(key, feature_id) THEN name
          ELSE IF Contains(feature_id, lower(name)) \/ Contains(lower(name), feature_id)
               THEN name
               ELSE PartialMatch(feature_id, i + 1)

get_feature_name(reply_key) ==
  LET feature_id == replace(strip(lower(KeyChars[reply_key])), <<" ">>, <<"_">>)
  IN IF \E i \in 1..Len(FeatureIds) : KeyChars[FeatureIds[i]] = feature_id
     THEN get_features[FeatureIds[CHOOSE i \in 1..Len(FeatureIds) :
                                     KeyChars[FeatureIds[i]] = feature_id]].name
     ELSE PartialMatch(feature_id, 1)

\* the order of Python's strings among the string scores a reply may carry
ScoreStrings == <<"10", "9", "high">>
Rank(v) ==
  IF v.t = "num" THEN v.n
  ELSE IF v.t = "str" THEN CHOOSE i \in 1..Len(ScoreStrings) : ScoreStrings[i] = v.s
  ELSE 0

\* lines 523-544: the formatted reply; [raised, value]
format_reply(responses, entries) ==
  Let(map_income_level(Get(responses, "income_range", Str("income_medium"))), LAMBDA income :
    IF income.raised \/ SortRaises(entries)
    THEN [raised |-> TRUE, value |-> EmptyResult]
    ELSE
      Let(sorted_reverse([i \in 1..Len(entries) |-> i],
                         [i \in 1..Len(entries) |-> Rank(SortKey(entries[i]))]), LAMBDA order :
        [raised |-> FALSE,
         value |->
           [shape |-> "full",
            prioritized_features |->
              [k \in 1..Len(order) |->
                 [id |-> entries[order[k]].key,
                  name |-> get_feature_name(entries[order[k]].key),
                  score |-> IF entries[order[k]].score.t = "absent" THEN Num(5)
                            ELSE entries[order[k]].score,
                  explanation |-> IF entries[order[k]].explanation.t = "absent" THEN ""
                                  ELSE entries[order[k]].explanation.s,
                  tip |-> IF entries[order[k]].tip.t = "absent" THEN ""
                          ELSE entries[order[k]].tip.s]],
            user_profile |->
              [knowledge_level |-> Get(responses, "financial_knowledge", Str("beginner")),
               income_level |-> income.value]]]))

\* line 465: the Remote Scorer branch is entered
remote_enabled(m) == m.has_api /\ m.api_key # NoApiKey

\* lines 493-517: whether a request reaches the remote service. With a key
\* in the environment either client sends it. Without one no client object
\* exists and the code takes the old-client branch, where the name openai is
\* unbound if the modern import succeeded (NameError) and the old library
\* refuses to send a request with no key configured: both end in the handler
\* of line 551
remote_called(e, m) == remote_enabled(m) /\ e.OPENAI_API_KEY # NoApiKey

\* RecommenderService.recommend_features(responses), the Remote Scorer
\* answering `reply` if it is called
recommend_features(e, m, features_attr, responses, reply) ==
  Let(remote_called(e, m), LAMBDA called :
  Let(IF called /\ reply.kind = "json" THEN format_reply(responses, reply.entries)
      ELSE [raised |-> TRUE, value |-> EmptyResult], LAMBDA formatted :
    IF ~formatted.raised
    THEN [attempted |-> remote_enabled(m), called |-> called, path |-> "remote",
          raised |-> FALSE, value |-> formatted.value, svc_features |-> features_attr]
    ELSE
      \* lines 555-557: the model's own algorithm
      Let(Model_recommend_features(m.kind, responses), LAMBDA local :
        IF ~local.raised
        THEN [attempted |-> remote_enabled(m), called |-> called, path |-> "model",
              raised |-> FALSE, value |-> local.value, svc_features |-> features_attr]
        ELSE
          \* lines 561-563: the service's fallback, which installs a
          \* catalogue on a service that has none (lines 607-639)
          Let(generate_fallback_recommendations(responses), LAMBDA fallback :
            [attempted |-> remote_enabled(m), called |-> called, path |-> "fallback",
             raised |-> fallback.raised, value |-> fallback.value,
             svc_features |-> IF features_attr = "none" THEN "fallback"
                              ELSE features_attr]))))

\* ------------------------------------------------------------------ inputs

FieldSeq ==
  <<"financial_goals", "banking_habits", "savings_method", "loan_needs",
    "digital_comfort", "tracking_interest", "financial_knowledge", "income_range">>
Fields == {FieldSeq[i] : i \in 1..Len(FieldSeq)}

GoalTags == {"save", "invest", "loan", "education", "community", "track"}
SavingsTags == {"chit", "mutual_funds", "bank"}

Lists(tags, n) == {List(s) : s \in {x \in SUBSET tags : Cardinality(x) <= n}}

\* the answers a responses mapping may hold for a field: every tag the rules
\* read, lists of at most n tags, and values of the wrong type
FieldValues(field, n) ==
  CASE field = "financial_goals" ->
         {Str(x) : x \in GoalTags} \cup Lists(GoalTags, n) \cup {Num(5), Null}
    [] field = "savings_method" ->
         {Str(x) : x \in SavingsTags} \cup Lists(SavingsTags, n) \cup {Num(5), Null}
    [] field = "banking_habits" ->
         {Str(x) : x \in {"traditional", "atm", "net_banking", "mobile", "upi", "limited"}}
           \cup {List({"upi"}), Null}
    [] field = "loan_needs" ->
         {Str(x) : x \in {"current", "future", "no"}} \cup {Num(1)}
    [] field = "digital_comfort" ->
         {Str(x) : x \in {"very", "somewhat", "limited", "uncomfortable"}} \cup {Null}
    [] field = "tracking_interest" ->
         {Num(x) : x \in 1..5} \cup {Str("5")}
    [] field = "financial_knowledge" ->
         {Str(x) : x \in {"beginner", "basic", "intermediate", "advanced"}} \cup {Null}
    [] field = "income_range" ->
         {Str(x) : x \in {"income_low", "income_medium_low", "income_medium",
                          "income_medium_high", "income_high", "income_other"}}
           \cup {List({"income_low"}), Num(3)}

\* the mappings over fields i.. of FieldSeq that hold at most k keys, with
\* lists of at most n tags, as tuples in the order of FieldSeq
RECURSIVE Fill(_, _, _)
Fill(i, k, n) ==
  IF i > Len(FieldSeq) THEN {<<>>}
  ELSE {<<Absent>> \o r : r \in Fill(i + 1, k, n)}
       \cup (IF k = 0 THEN {}
             ELSE {<<v>> \o r : v \in FieldValues(FieldSeq[i], n), r \in Fill(i + 1, k - 1, n)})

FieldIndex(field) == CHOOSE i \in 1..Len(FieldSeq) : FieldSeq[i] = field
AsResponses(tuple) == [f \in Fields |-> tuple[FieldIndex(f)]]

\* the SurveyResponses of POST /recommend
\* a fully answered survey: an investor at ease with digital banking
ScenarioResponses ==
  [financial_goals |-> List({"invest"}), banking_habits |-> Str("upi"),
   savings_method |-> List({"mutual_funds"}), loan_needs |-> Str("no"),
   digital_comfort |-> Str("very"), tracking_interest |-> Num(5),
   financial_knowledge |-> Str("advanced"), income_range |-> Absent]

Responses == {AsResponses(x) : x \in Fill(1, MaxFields, MaxListLen)} \cup {ScenarioResponses}

\* the SurveyResponses the Scoring Engine specification scores
EngineResponses == {AsResponses(x) : x \in Fill(1, MaxEngineFields, MaxEngineListLen)}

\* the SurveyResponses of the Remote Scorer specification: the empty mapping
\* and those holding one of the keys the remote path reads itself (lines
\* 527-528)
ProfileFields == {"financial_knowledge", "income_range"}
AllAbsent == [f \in Fields |-> Absent]
RemoteResponses ==
  {AllAbsent} \cup UNION {{[AllAbsent EXCEPT ![g] = v] : v \in FieldValues(g, 0)} : g \in ProfileFields}

\* the query parameters of GET /survey, after the handler's defaults
UserContexts ==
  [location : {"Delhi NCR", "Pune"}, age : {"25-34", "55+"},
   interest : {"General", "Loans"}, literacy_level : {"moderate", "low", "high"}]

\* what the remote service answers: an exception or a timeout ("error"), a
\* content that is not JSON ("text"), or a JSON object, given by its entries
\* in the order of its keys
Entry(k, sc, ex, tp) == [key |-> k, score |-> sc, explanation |-> ex, tip |-> tp]
NoReply == [kind |-> "none", entries |-> <<>>]
WellFormedReply ==
  [kind |-> "json",
   entries |->
     <<Entry("mutual_funds", Num(9), Str("fits your goals"), Str("start a SIP")),
       Entry("digital_banking", Num(8), Str("you use UPI"), Str("pay a bill")),
       Entry("analytics_profile", Num(6), Str("track spending"), Str("link accounts")),
       Entry("community_savings", Num(4), Str("save together"), Str("form a group")),
       Entry("micro_loans", Num(3), Str("credit if needed"), Str("start small")),
       Entry("financial_education", Num(2), Str("learn basics"), Str("first module"))>>]

ReplyKeys == <<"digital_banking", "Digital Banking", "crypto_wallet">>
ReplyScores == {Absent, Null, Num(0), Num(7), Num(11), Str("high")}
ReplyEntries ==
  {Entry(ReplyKeys[i], sc, Str("why"), Str("how")) : i \in 1..Len(ReplyKeys), sc \in ReplyScores}
    \cup {Entry(ReplyKeys[i], Num(7), Absent, Str("how")) : i \in 1..Len(ReplyKeys)}
    \cup {Entry(ReplyKeys[i], Num(7), Str("why"), Absent) : i \in 1..Len(ReplyKeys)}

\* the entry lists of at most n entries with distinct keys
RECURSIVE EntryLists(_)
EntryLists(n) ==
  IF n = 0 THEN {<<>>}
  ELSE EntryLists(n - 1)
       \cup {Append(l, x) : l \in {y \in EntryLists(n - 1) : Len(y) = n - 1},
                            x \in ReplyEntries}

DistinctKeys(entries) ==
  \A i, j \in 1..Len(entries) : i # j => entries[i].key # entries[j].key

FailedReplies == {[kind |-> "error", entries |-> <<>>], [kind |-> "text", entries |-> <<>>]}

\* the replies of the service-level specification
ServiceReplies == FailedReplies \cup {WellFormedReply}

\* the replies of the Remote Scorer specification
Replies ==
  FailedReplies \cup {WellFormedReply}
    \cup {[kind |-> "json", entries |-> l] : l \in {x \in EntryLists(MaxReplyLen) : DistinctKeys(x)}}

\* ---------------------------------------------------------- specification

Bundles == {"missing", "standard", "custom", "custom_fails"}

\* the environments a process can start in; a bundle that is not loaded
\* contributes no attributes
Envs ==
  {e \in [bundle : Bundles, bundle_has_api : BOOLEAN,
          bundle_api_key : {NoApiKey, "sk-bundle"},
          OPENAI_API_KEY : {NoApiKey, "sk-env"},
          USE_OPENAI : BOOLEAN] :
     /\ e.bundle \in {"missing", "custom_fails"} =>
          ~e.bundle_has_api /\ e.bundle_api_key = NoApiKey
     /\ e.bundle_api_key # NoApiKey => e.bundle_has_api}

NoResp == [op |-> "none"]

Started(e) ==
  /\ env = e
  /\ model = Service_init(e).model
  /\ has_api = Service_init(e).has_api
  /\ svc_features = Service_init(e).svc_features
  /\ option_icon = NoIcons
  /\ resp = NoResp

Init == \E e \in Envs : Started(e)

\* GET /survey
get_survey(user_context) ==
  /\ resp.op = "none"
  /\ \E r \in {generate_survey(model.kind, option_icon, user_context)} :
        /\ option_icon' = r.icons
        /\ resp' = [op |-> "survey", user_context |-> user_context,
                    status |-> IF r.raised THEN 500 ELSE 200,
                    success |-> ~r.raised, survey |-> r.questions]
  /\ UNCHANGED <<env, model, has_api, svc_features>>

Recommend(responses, reply) ==
  /\ resp.op = "none"
  /\ \E r \in {recommend_features(env, model, svc_features, responses, reply)} :
        /\ svc_features' = r.svc_features
        /\ resp' = [op |-> "recommend", responses |-> responses,
                    reply |-> IF r.called THEN reply ELSE NoReply,
                    attempted |-> r.attempted, called |-> r.called, path |-> r.path,
                    status |-> IF r.raised THEN 500 ELSE 200,
                    success |-> ~r.raised,
                    recommendations |-> r.value]
  /\ UNCHANGED <<env, model, has_api, option_icon>>

\* POST /recommend
post_recommend ==
  /\ resp.op = "none"
  /\ \E responses \in Responses :
       \E reply \in (IF remote_called(env, model) THEN ServiceReplies ELSE {NoReply}) :
         Recommend(responses, reply)

\* GET /features
get_features_handler ==
  /\ resp.op = "none"
  /\ resp' = [op |-> "features", status |-> 200, success |-> TRUE, features |-> get_features]
  /\ UNCHANGED <<env, model, has_api, svc_features, option_icon>>

\* the handler returns: the response is sent and the per-request data
\* discarded
SendResponse ==
  /\ resp.op \notin {"none", "calling"}
  /\ resp' = NoResp
  /\ UNCHANGED <<env, model, has_api, svc_features, option_icon>>

Next ==
  \/ resp.op = "none" /\ \E user_context \in UserContexts : get_survey(user_context)
  \/ post_recommend
  \/ get_features_handler
  \/ SendResponse

Spec == Init /\ [][Next]_vars

\* ----------------------------------------- Scoring Engine specification

\* a service that holds a loaded agent and no key: every request is scored
\* by the local engine
EngineEnv ==
  [bundle |-> "standard", bundle_has_api |-> TRUE, bundle_api_key |-> NoApiKey,
   OPENAI_API_KEY |-> NoApiKey, USE_OPENAI |-> FALSE]

InitEngine ==
  /\ \E responses \in EngineResponses : resp = [op |-> "request", responses |-> responses]
  /\ env = EngineEnv
  /\ model = Service_init(EngineEnv).model
  /\ has_api = Service_init(EngineEnv).has_api
  /\ svc_features = Service_init(EngineEnv).svc_features
  /\ option_icon = NoIcons

\* the two local algorithms applied to the request
Score ==
  /\ resp.op = "request"
  /\ resp' = [op |-> "scored", responses |-> resp.responses,
              engine |-> generate_fallback_recommendations(resp.responses),
              basic |-> BasicModel_recommend_features(resp.responses)]
  /\ UNCHANGED <<env, model, has_api, svc_features, option_icon>>

NextEngine == Score

SpecEngine == InitEngine /\ [][NextEngine]_vars

\* ------------------------------------------- Remote Scorer specification

\* services that call the Remote Scorer: a key in the environment
RemoteEnvs ==
  {e \in Envs : /\ e.OPENAI_API_KEY # NoApiKey
                /\ e.USE_OPENAI
                /\ e.bundle \in {"missing", "standard", "custom"}
                /\ e.bundle_api_key = NoApiKey
                /\ e.bundle \in {"standard", "custom"} => e.bundle_has_api}

InitRemote == \E e \in RemoteEnvs : Started(e)

\* POST /recommend, the Remote Scorer answering any reply
post_recommend_remote ==
  /\ resp.op = "none"
  /\ \E responses \in RemoteResponses :
       \E reply \in Replies : Recommend(responses, reply)

NextRemote ==
  \/ post_recommend_remote
  \/ SendResponse

SpecRemote == InitRemote /\ [][NextRemote]_vars

\* ------------------------------------------------- front end specification

\* the two front ends: the Flask blueprint (api/recommender.py, app.py) and
\* the FastAPI application (main.py)
FrontEnds == {"flask", "fastapi"}

\* a response: the HTTP status and the keys of its JSON body. success is
\* "true", "false" or "absent"; payload names the payload key present
\* ("survey", "recommendations", "features") or is "absent"; error tells
\* whether the key "error" holds a string; detail is "absent", "string"
\* (HTTPException(detail=str(e))) or "list" (the framework's validation
\* errors)
Envelope(status, success, payload, error, detail) ==
  [status |-> status, success |-> success, payload |-> payload,
   error |-> error, detail |-> detail]

\* jsonify({'success': True, <payload>: ...}), 200
SuccessEnvelope(payload) == Envelope(200, "true", payload, FALSE, "absent")

\* jsonify({'success': False, 'error': ...}), status
Flask_error(status) == Envelope(status, "false", "absent", TRUE, "absent")

\* raise HTTPException(status_code=500, detail=str(e)): FastAPI answers
\* {"detail": "..."}
FastAPI_HTTPException == Envelope(500, "absent", "absent", FALSE, "string")

\* a body that does not validate against SurveyResponse: FastAPI answers
\* 422 with {"detail": [...]} before the handler runs
FastAPI_validation_error == Envelope(422, "absent", "absent", FALSE, "list")

\* the bodies of POST /recommend: text that is not JSON, no body, the empty
\* object {}, an object without the key responses, an object with it
MalformedKinds == {"not_json", "empty", "empty_object", "no_responses"}
Bodies ==
  {[kind |-> k, responses |-> AllAbsent] : k \in MalformedKinds}
    \cup {[kind |-> "responses", responses |-> r] : r \in Responses}

\* request.get_json() (api/recommender.py line 50): "raises" is the
\* BadRequest / UnsupportedMediaType exception, "none" the value None an
\* older Flask returns for a request without a JSON content type, "data" the
\* parsed value
get_json(body) ==
  IF body.kind = "not_json" THEN {"raises"}
  ELSE IF body.kind = "empty" THEN {"raises", "none"}
  ELSE {"data"}

\* api/recommender.py recommend_features, lines 45-77; raised tells whether
\* the service call raised
Flask_recommend_features(body, parsed, raised) ==
  IF parsed = "raises" THEN Flask_error(500)
  ELSE IF parsed = "none" \/ body.kind = "empty_object" THEN Flask_error(400)
  ELSE IF body.kind # "responses" THEN Flask_error(400)
  ELSE IF raised THEN Flask_error(500)
  ELSE SuccessEnvelope("recommendations")

\* main.py recommend_features, lines 77-90
FastAPI_recommend_features(body, raised) ==
  IF body.kind # "responses" THEN FastAPI_validation_error
  ELSE IF raised THEN FastAPI_HTTPException
  ELSE SuccessEnvelope("recommendations")

\* the environments of the front end specification: a process of either
\* front end, no API key
HttpEnvs ==
  {[bundle |-> b, bundle_has_api |-> FALSE, bundle_api_key |-> NoApiKey,
    OPENAI_API_KEY |-> NoApiKey, USE_OPENAI |-> TRUE, frontend |-> fe] :
     b \in {"missing", "standard", "custom"}, fe \in FrontEnds}

InitHttp == \E e \in HttpEnvs : Started(e)

\* GET /survey in either front end (api/recommender.py lines 18-43, main.py
\* lines 48-75); what RecommenderService.generate_survey raises is answered
\* with the front end's error body
http_get_survey ==
  /\ resp.op = "none"
  /\ \E user_context \in UserContexts :
       \E r \in {generate_survey(model.kind, option_icon, user_context)} :
         /\ option_icon' = r.icons
         /\ resp' = [op |-> "http", route |-> "survey", frontend |-> env.frontend,
                     body |-> "none", request |-> user_context, failed |-> r.raised,
                     envelope |-> IF ~r.raised THEN SuccessEnvelope("survey")
                                  ELSE IF env.frontend = "flask" THEN Flask_error(500)
                                  ELSE FastAPI_HTTPException]
  /\ UNCHANGED <<env, model, has_api, svc_features>>

\* POST /recommend in either front end
http_post_recommend ==
  /\ resp.op = "none"
  /\ \E body \in Bodies :
       \E parsed \in (IF env.frontend = "flask" THEN get_json(body) ELSE {"data"}) :
         IF body.kind = "responses" /\ parsed = "data"
         THEN \E r \in {recommend_features(env, model, svc_features, body.responses, NoReply)} :
                /\ svc_features' = r.svc_features
                /\ resp' = [op |-> "http", route |-> "recommend", frontend |-> env.frontend,
                            body |-> body.kind, request |-> body.responses,
                            failed |-> r.raised,
                            envelope |->
                              IF env.frontend = "flask"
                              THEN Flask_recommend_features(body, parsed, r.raised)
                              ELSE FastAPI_recommend_features(body, r.raised)]
         ELSE /\ svc_features' = svc_features
              /\ resp' = [op |-> "http", route |-> "recommend", frontend |-> env.frontend,
                          body |-> body.kind, request |-> body.responses,
                          failed |-> FALSE,
                          envelope |->
                            IF env.frontend = "flask"
                            THEN Flask_recommend_features(body, parsed, FALSE)
                            ELSE FastAPI_recommend_features(body, FALSE)]
  /\ UNCHANGED <<env, model, has_api, option_icon>>

\* GET /features in either front end (api/recommender.py lines 79-95,
\* main.py lines 92-104)
http_get_features ==
  /\ resp.op = "none"
  /\ resp' = [op |-> "http", route |-> "features", frontend |-> env.frontend,
              body |-> "none", request |-> "none", failed |-> FALSE,
              envelope |-> SuccessEnvelope("features")]
  /\ UNCHANGED <<env, model, has_api, svc_features, option_icon>>

NextHttp ==
  \/ http_get_survey
  \/ http_post_recommend
  \/ http_get_features
  \/ SendResponse

SpecHttp == InitHttp /\ [][NextHttp]_vars

\* ------------------------------------------- remote call in progress

\* the timeout argument of the remote call: lines 493-517 pass model,
\* messages, temperature and response_format, and no timeout; the client of
\* line 58 is built from the key alone
NoTimeout == "unset"

\* POST /recommend up to the remote call (lines 465-517): the request waits
\* for chat.completions.create / ChatCompletion.create to return
call_remote ==
  /\ resp.op = "none"
  /\ remote_called(env, model)
  /\ \E responses \in RemoteResponses :
       resp' = [op |-> "calling", responses |-> responses, timeout |-> NoTimeout]
  /\ UNCHANGED <<env, model, has_api, svc_features, option_icon>>

\* the call returns, with a reply or with an exception of the client
\* library, and the handler runs to its end (lines 518-563)
remote_returns ==
  /\ resp.op = "calling"
  /\ \E reply \in ServiceReplies :
       \E r \in {recommend_features(env, model, svc_features, resp.responses, reply)} :
         /\ svc_features' = r.svc_features
         /\ resp' = [op |-> "recommend", responses |-> resp.responses, reply |-> reply,
                     attempted |-> r.attempted, called |-> r.called, path |-> r.path,
                     status |-> IF r.raised THEN 500 ELSE 200,
                     success |-> ~r.raised,
                     recommendations |-> r.value]
  /\ UNCHANGED <<env, model, has_api, option_icon>>

NextWait ==
  \/ call_remote
  \/ remote_returns
  \/ SendResponse

\* a handler that holds its result returns it; nothing in the code makes a
\* pending remote call return
SpecWait == InitRemote /\ [][NextWait]_vars /\ WF_vars(SendResponse)

\* ------------------------------------ Accessibility Transform specification

\* the transform applied to one question dict whose question text and whose
\* single option text are the same text, drawn from the template texts and
\* from phrases of at most MaxWords words
MaxWords == 2

Words ==
  {Keyword.financial_goals, Keyword.income, Keyword.risk, Keyword.knowledge,
   Keyword.banking, Keyword.banking_habits, Keyword.save, Keyword.save_money,
   Keyword.loan, Keyword.digital, Keyword.tracking, Keyword.financial,
   Keyword.investment, Keyword.growth, Keyword.low, Keyword.high, Keyword.app,
   <<"F">> \o Tail(Keyword.financial), <<"I">> \o Tail(Keyword.income),
   <<"o","t","h","e","r">>}

RECURSIVE Phrases(_)
Phrases(n) ==
  IF n = 0 THEN {<<>>}
  ELSE Phrases(n - 1) \cup
       {(IF p = <<>> THEN w ELSE p \o <<" ">> \o w) : p \in Phrases(n - 1), w \in Words}

\* the question and option texts of the templates, and the phrases
Texts ==
  {BaseQuestionTemplates[q].question : q \in DOMAIN BaseQuestionTemplates}
    \cup UNION {{BaseQuestionTemplates[q].options[i].text :
                   i \in 1..Len(BaseQuestionTemplates[q].options)} :
                 q \in DOMAIN BaseQuestionTemplates}
    \cup Phrases(MaxWords)

InitTransform ==
  /\ \E text \in Texts : resp = [op |-> "text", text |-> text]
  /\ env = EngineEnv
  /\ model = Service_init(EngineEnv).model
  /\ has_api = Service_init(EngineEnv).has_api
  /\ svc_features = Service_init(EngineEnv).svc_features
  /\ option_icon = NoIcons

\* one pass of the loop of enhance_for_accessibility
Transform ==
  /\ resp.op = "text"
  /\ resp' = [op |-> "transformed", text |-> resp.text,
              simplified_question |-> simplified_question(resp.text),
              help_text |-> generate_help_text(resp.text),
              icon |-> assign_option_icon(resp.text)]
  /\ UNCHANGED <<env, model, has_api, svc_features, option_icon>>

NextTransform == Transform

SpecTransform == InitTransform /\ [][NextTransform]_vars

\* ---------------------------------------- concurrent surveys specification

\* two GET /survey requests in progress on one service, one with
\* literacy_level "low" and one with another level, each in a worker thread
\* of its own; resp holds both requests
ConcurrentEnvs ==
  {[bundle |-> b, bundle_has_api |-> FALSE, bundle_api_key |-> NoApiKey,
    OPENAI_API_KEY |-> NoApiKey, USE_OPENAI |-> TRUE] :
     b \in {"missing", "standard", "custom"}}

InitConcurrent == \E e \in ConcurrentEnvs : Started(e)

\* both requests arrive, with the default location, age and interest
receive_pair ==
  /\ resp.op = "none"
  /\ \E low, other \in {uc \in UserContexts :
                            /\ uc.location = "Delhi NCR"
                            /\ uc.age = "25-34"
                            /\ uc.interest = "General"} :
        /\ low.literacy_level = "low"
        /\ other.literacy_level # "low"
        /\ resp' = [op |-> "concurrent",
                    low |-> [pc |-> "received", user_context |-> low,
                             questions |-> <<>>, enhanced |-> 0, survey |-> <<>>],
                    other |-> [pc |-> "received", user_context |-> other,
                               questions |-> <<>>, enhanced |-> 0, survey |-> <<>>]]
  /\ UNCHANGED <<env, model, has_api, svc_features, option_icon>>

\* self.model.generate_survey(user_context) in the low-literacy request
low_generate ==
  /\ resp.op = "concurrent"
  /\ resp.low.pc = "received"
  /\ resp' = [resp EXCEPT !.low.pc = "enhancing",
                           !.low.questions = Model_generate_survey(model.kind, resp.low.user_context)]
  /\ UNCHANGED <<env, model, has_api, svc_features, option_icon>>

\* option["icon"] = ... for the options of one question (lines 393-396): the
\* option dicts are the template's own
annotate_options(icons, q) == [icons EXCEPT ![q] = TemplateIcons[q]]

\* one pass of the loop of enhance_for_accessibility
low_enhance_one ==
  /\ resp.op = "concurrent"
  /\ resp.low.pc = "enhancing"
  /\ resp.low.enhanced < Len(resp.low.questions)
  /\ option_icon' = annotate_options(option_icon, resp.low.questions[resp.low.enhanced + 1])
  /\ resp' = [resp EXCEPT !.low.enhanced = @ + 1]
  /\ UNCHANGED <<env, model, has_api, svc_features>>

\* the loop is over: the enhanced list is returned and serialised
low_return ==
  /\ resp.op = "concurrent"
  /\ resp.low.pc = "enhancing"
  /\ resp.low.enhanced = Len(resp.low.questions)
  /\ resp' = [resp EXCEPT !.low.pc = "sent",
                           !.low.survey = enhance_for_accessibility(option_icon, resp.low.questions)]
  /\ UNCHANGED <<env, model, has_api, svc_features, option_icon>>

\* self.model.generate_survey(user_context) in the other request: the list
\* refers to the template dicts
other_generate ==
  /\ resp.op = "concurrent"
  /\ resp.other.pc = "received"
  /\ resp' = [resp EXCEPT !.other.pc = "listed",
                           !.other.questions = Model_generate_survey(model.kind, resp.other.user_context)]
  /\ UNCHANGED <<env, model, has_api, svc_features, option_icon>>

\* the other request's list is serialised: the option dicts are read now
other_return ==
  /\ resp.op = "concurrent"
  /\ resp.other.pc = "listed"
  /\ resp' = [resp EXCEPT !.other.pc = "sent",
                           !.other.survey = [k \in 1..Len(resp.other.questions) |->
                                               Question(option_icon, resp.other.questions[k])]]
  /\ UNCHANGED <<env, model, has_api, svc_features, option_icon>>

\* both responses are sent
pair_sent ==
  /\ resp.op = "concurrent"
  /\ resp.low.pc = "sent"
  /\ resp.other.pc = "sent"
  /\ resp' = NoResp
  /\ UNCHANGED <<env, model, has_api, svc_features, option_icon>>

NextConcurrent ==
  \/ receive_pair
  \/ low_generate
  \/ low_enhance_one
  \/ low_return
  \/ other_generate
  \/ other_return
  \/ pair_sent

SpecConcurrent == InitConcurrent /\ [][NextConcurrent]_vars

\* ------------------------------------------------- start-up specification

\* the worker threads of one process of either front end, each making
\* requests through get_service; resp holds the module global _service, the
\* number of RecommenderService objects constructed so far and the threads
MaxThreads == 2

\* _service = None
NoService == 0

InitStartup ==
  /\ \E e \in HttpEnvs :
        /\ env = e
        /\ model = Service_init(e).model
        /\ has_api = Service_init(e).has_api
        /\ svc_features = Service_init(e).svc_features
  /\ option_icon = NoIcons
  /\ resp = [op |-> "starting", service |-> NoService, constructed |-> 0,
             threads |-> [t \in 1..MaxThreads |->
                            [pc |-> "idle", built |-> NoService, instance |-> NoService]]]

\* if _service is None
check_service(t) ==
  /\ resp.threads[t].pc = "idle"
  /\ resp' = [resp EXCEPT !.threads[t].pc =
                             IF resp.service = NoService THEN "construct" ELSE "return"]
  /\ UNCHANGED <<env, model, has_api, svc_features, option_icon>>

\* RecommenderService(): the model is loaded, the templates are built
construct_service(t) ==
  /\ resp.threads[t].pc = "construct"
  /\ resp' = [resp EXCEPT !.constructed = @ + 1,
                           !.threads[t].built = resp.constructed + 1,
                           !.threads[t].pc = "assign"]
  /\ UNCHANGED <<env, model, has_api, svc_features, option_icon>>

\* _service = <the new object>
assign_service(t) ==
  /\ resp.threads[t].pc = "assign"
  /\ resp' = [resp EXCEPT !.service = resp.threads[t].built,
                           !.threads[t].pc = "return"]
  /\ UNCHANGED <<env, model, has_api, svc_features, option_icon>>

\* return _service: the handler goes on with the object the global holds now
return_service(t) ==
  /\ resp.threads[t].pc = "return"
  /\ resp' = [resp EXCEPT !.threads[t].instance = resp.service,
                           !.threads[t].pc = "serving"]
  /\ UNCHANGED <<env, model, has_api, svc_features, option_icon>>

\* the handler answers and the thread takes the next request
finish_request(t) ==
  /\ resp.threads[t].pc = "serving"
  /\ resp' = [resp EXCEPT !.threads[t] =
                             [pc |-> "idle", built |-> NoService, instance |-> NoService]]
  /\ UNCHANGED <<env, model, has_api, svc_features, option_icon>>

NextStartup ==
  \E t \in 1..MaxThreads :
    \/ check_service(t)
    \/ construct_service(t)
    \/ assign_service(t)
    \/ return_service(t)
    \/ finish_request(t)

SpecStartup == InitStartup /\ [][NextStartup]_vars

\* --------------------------------------------------- survey specification

\* the survey requests of a service of any kind, a service whose bundle
\* holds an agent with incomplete templates included
SurveyEnvs ==
  {[bundle |-> b, bundle_has_api |-> FALSE, bundle_api_key |-> NoApiKey,
    OPENAI_API_KEY |-> NoApiKey, USE_OPENAI |-> TRUE] :
     b \in {"stale", "standard", "custom", "missing"}}

InitSurvey == \E e \in SurveyEnvs : Started(e)

NextSurvey ==
  \/ resp.op = "none" /\ \E user_context \in UserContexts : get_survey(user_context)
  \/ SendResponse

SpecSurvey == InitSurvey /\ [][NextSurvey]_vars

\* --------------------------------------------- update_model.py specification

\* no file at a path
NoFile == [written |-> FALSE, has_api |-> FALSE, api_key |-> NoApiKey,
           finergize_features |-> "absent", question_templates |-> "absent",
           chat_history |-> "absent"]

\* FinergizeRecommenderAgent(None): the attributes __init__ builds
\* (update_model.py lines 19-172); "default" is the built-in content,
\* "stored" content restored from a file, "empty" an empty container
FreshAgent ==
  [has_api |-> FALSE, api_key |-> NoApiKey,
   finergize_features |-> "default", question_templates |-> "default",
   chat_history |-> "default"]

\* joblib.dump(model, output_path)
Dump(m) ==
  [written |-> TRUE, has_api |-> m.has_api, api_key |-> m.api_key,
   finergize_features |-> m.finergize_features,
   question_templates |-> m.question_templates,
   chat_history |-> m.chat_history]

\* create_fresh_model(output_path)
create_fresh_model ==
  [returned |-> "True", output |-> Dump([FreshAgent EXCEPT !.has_api = TRUE])]

\* an updater that leaves the key of its input in place
update_existing_model_keeping_key(file) ==
  IF file.load \in {"missing", "custom_fails"}
  THEN [returned |-> "False", output |-> NoFile]
  ELSE IF file.load \in {"corrupt", "foreign"}
  THEN [returned |-> "raised", output |-> NoFile]
  ELSE [returned |-> "True",
        output |-> Dump([has_api |-> TRUE, api_key |-> file.api_key,
                         finergize_features |->
                           IF file.finergize_features \in {"absent", "empty"}
                           THEN FreshAgent.finergize_features
                           ELSE file.finergize_features,
                         question_templates |->
                           IF file.question_templates \in {"absent", "empty"}
                           THEN FreshAgent.question_templates
                           ELSE file.question_templates,
                         chat_history |->
                           IF file.chat_history \in {"absent", "empty"}
                           THEN FreshAgent.chat_history
                           ELSE file.chat_history])]

\* update_existing_model(input_path, output_path) by what the input path
\* holds: "missing" no file (returns False), "standard" a file joblib.load
\* restores, "custom" one that needs the custom unpickler, "custom_fails" one
\* the custom unpickler fails on (returns False), "corrupt" one on which
\* joblib.load raises another exception, "foreign" a pickled object that
\* takes no new attributes; the last two raise out of the function
update_existing_model(file) ==
  IF file.load \in {"missing", "custom_fails"}
  THEN [returned |-> "False", output |-> NoFile]
  ELSE IF file.load \in {"corrupt", "foreign"}
  THEN [returned |-> "raised", output |-> NoFile]
  ELSE [returned |-> "True",
        output |-> Dump([has_api |-> TRUE, api_key |-> NoApiKey,
                         finergize_features |->
                           IF file.finergize_features \in {"absent", "empty"}
                           THEN FreshAgent.finergize_features
                           ELSE file.finergize_features,
                         question_templates |->
                           IF file.question_templates \in {"absent", "empty"}
                           THEN FreshAgent.question_templates
                           ELSE file.question_templates,
                         chat_history |->
                           IF file.chat_history \in {"absent", "empty"}
                           THEN FreshAgent.chat_history
                           ELSE file.chat_history])]

\* what the --input path holds
InputFiles ==
  {[load |-> l, has_api |-> FALSE, api_key |-> NoApiKey,
    finergize_features |-> "absent", question_templates |-> "absent",
    chat_history |-> "absent"] : l \in {"missing", "custom_fails", "corrupt", "foreign"}}
    \cup [load : {"standard", "custom"}, has_api : BOOLEAN,
          api_key : {NoApiKey, "sk-bundle"},
          finergize_features : {"absent", "empty", "stored"},
          question_templates : {"absent", "empty", "stored"},
          chat_history : {"absent", "empty", "stored"}]

\* the block under `if __name__ == "__main__"` (lines 362-396): argparse
\* exits with status 2 when --output is missing; the block runs before the
\* def of update_existing_model (line 399) is executed, so the call of line
\* 391 raises NameError and the interpreter exits with status 1
update_model_main(args, file) ==
  IF ~args.output THEN [status |-> 2, output |-> NoFile]
  ELSE IF args.create /\ args.update THEN [status |-> 1, output |-> NoFile]
  ELSE IF ~(args.create \/ args.update) THEN [status |-> 1, output |-> NoFile]
  ELSE IF args.update /\ ~args.input THEN [status |-> 1, output |-> NoFile]
  ELSE IF args.create
       THEN [status |-> IF create_fresh_model.returned = "True" THEN 0 ELSE 1,
             output |-> create_fresh_model.output]
  ELSE [status |-> 1, output |-> NoFile]

\* a command line (--create, --update, --input and --output given or not)
\* and an input path
InitScript ==
  /\ \E args \in [create : BOOLEAN, update : BOOLEAN, input : BOOLEAN, output : BOOLEAN] :
       \E file \in InputFiles :
        resp = [op |-> "invoked", args |-> args, input_file |-> file]
  /\ env = EngineEnv
  /\ model = Service_init(EngineEnv).model
  /\ has_api = Service_init(EngineEnv).has_api
  /\ svc_features = Service_init(EngineEnv).svc_features
  /\ option_icon = NoIcons

\* python update_model.py <args>
run_script ==
  /\ resp.op = "invoked"
  /\ \E r \in {update_model_main(resp.args, resp.input_file)} :
        resp' = [op |-> "exited", args |-> resp.args, input_file |-> resp.input_file,
                 returned |-> "none", status |-> r.status, output |-> r.output]
  /\ UNCHANGED <<env, model, has_api, svc_features, option_icon>>

\* update_existing_model called by code that imports the module
call_update_existing_model ==
  /\ resp.op = "invoked"
  /\ resp.args.update /\ ~resp.args.create /\ resp.args.input /\ resp.args.output
  /\ \E r \in {update_existing_model(resp.input_file)} :
        resp' = [op |-> "updated", args |-> resp.args, input_file |-> resp.input_file,
                 returned |-> r.returned, status |-> 0, output |-> r.output]
  /\ UNCHANGED <<env, model, has_api, svc_features, option_icon>>

\* create_fresh_model called by code that imports the module
call_create_fresh_model ==
  /\ resp.op = "invoked"
  /\ resp.args.create /\ ~resp.args.update /\ resp.args.output
  /\ resp' = [op |-> "created", args |-> resp.args, input_file |-> resp.input_file,
              returned |-> create_fresh_model.returned, status |-> 0,
              output |-> create_fresh_model.output]
  /\ UNCHANGED <<env, model, has_api, svc_features, option_icon>>

NextScript ==
  \/ run_script
  \/ call_update_existing_model
  \/ call_create_fresh_model

SpecScript == InitScript /\ [][NextScript]_vars

\* ------------------------------------------------------------ the claims

\* the section 4.2 rule table, as the specification states it
RuleTable(responses) ==
  LET goals == AsList(Get(responses, "financial_goals", List({})))
      banking_habit == Get(responses, "banking_habits", Str("traditional"))
      savings_methods == AsList(Get(responses, "savings_method", List({})))
      loan_need == Get(responses, "loan_needs", Str("no"))
      digital_comfort == Get(responses, "digital_comfort", Str("somewhat"))
      tracking_interest == Get(responses, "tracking_interest", Num(3))
      knowledge_level == Get(responses, "financial_knowledge", Str("beginner"))
      AtLeast(x) == tracking_interest.t = "num" /\ tracking_interest.n >= x
      Rule(f, fires, pts) == [feature |-> f, fires |-> fires, pts |-> pts]
  IN <<Rule("digital_banking", InTags(digital_comfort, {"very", "somewhat"}), 3),
       Rule("digital_banking", InTags(banking_habit, {"mobile", "upi", "net_banking"}), 2),
       Rule("digital_banking", InTags(banking_habit, {"traditional", "atm", "limited"}), 1),
       Rule("mutual_funds", Has("invest", goals), 3),
       Rule("mutual_funds", Has("mutual_funds", savings_methods), 2),
       Rule("mutual_funds", InTags(knowledge_level, {"intermediate", "advanced"}), 1),
       Rule("community_savings", Has("community", goals), 3),
       Rule("community_savings", Has("chit", savings_methods), 3),
       Rule("community_savings", Has("save", goals), 1),
       Rule("micro_loans", InTags(loan_need, {"current", "future"}), 4),
       Rule("micro_loans", Has("loan", goals), 3),
       Rule("analytics_profile", Has("track", goals), 3),
       Rule("analytics_profile", AtLeast(4), 3),
       Rule("analytics_profile", AtLeast(3) /\ ~AtLeast(4), 1),
       Rule("financial_education", Has("education", goals), 4),
       Rule("financial_education", InTags(knowledge_level, {"beginner", "basic"}), 2)>>

RECURSIVE FiredSum(_, _, _)
FiredSum(rules, f, i) ==
  IF i > Len(rules) THEN 0
  ELSE (IF rules[i].feature = f /\ rules[i].fires THEN rules[i].pts ELSE 0)
       + FiredSum(rules, f, i + 1)

RuleTableScore(responses, f) == Max(1, Min(10, 5 + FiredSum(RuleTable(responses), f, 1)))

FeatureSet == {FeatureIds[i] : i \in 1..Len(FeatureIds)}
CatalogueIndex(f) == CHOOSE i \in 1..Len(FeatureIds) : FeatureIds[i] = f

\* C1: whenever the Remote Scorer is not used, recommend_features returns for
\* each of the six features the score clamp(5 + the rules of the section 4.2
\* table that fire, 1, 10), whatever model the service holds.
C1_LocalScoresFollowRuleTable ==
  (resp.op = "recommend" /\ ~resp.called /\ resp.responses["income_range"].t # "list") =>
    /\ resp.success
    /\ \A f \in FeatureSet :
         \E i \in 1..Len(resp.recommendations.prioritized_features) :
           /\ resp.recommendations.prioritized_features[i].id = f
           /\ resp.recommendations.prioritized_features[i].score
                = Num(RuleTableScore(resp.responses, f))

\* C2: when the Remote Scorer call fails (exception, timeout, non-JSON reply)
\* recommend_features returns what generate_fallback_recommendations computes
\* on the same input, whatever model the service holds.
C2_RemoteFailureEqualsEngine ==
  (resp.op = "recommend" /\ resp.called /\ resp.reply.kind \in {"error", "text"}
     /\ ~generate_fallback_recommendations(resp.responses).raised) =>
    /\ resp.success
    /\ resp.recommendations = generate_fallback_recommendations(resp.responses).value

\* C3: a generate_survey call whose literacy_level is not "low" returns
\* untransformed templates (no simplified_question, no help_text, no icon on
\* any option) even after earlier "low" calls, and a "low" call returns every
\* question transformed.
C3_TransformIffLow ==
  resp.op = "survey" =>
    \A k \in 1..Len(resp.survey) :
      IF resp.user_context.literacy_level = "low"
      THEN /\ resp.survey[k].simplified_question.set
           /\ resp.survey[k].help_text # NoKey
           /\ \A i \in 1..Len(resp.survey[k].options) :
                resp.survey[k].options[i].icon # NoKey
      ELSE resp.survey[k] = Question(NoIcons, resp.survey[k].id)

\* C4: no request handler writes shared state: after any sequence of
\* requests the service's catalogue and the templates with their option
\* entries are what they were after start-up, and GET /features answers the
\* same catalogue whatever preceded it.
C4_HandlersWriteNoSharedState ==
  /\ option_icon = NoIcons
  /\ svc_features = Service_init(env).svc_features
  /\ resp.op = "features" => resp.features = finergize_features

\* C5: on every scoring path every score returned by recommend_features is a
\* number in [1,10]; a remote score outside the range or not a number is
\* clamped or rejected.
C5_ScoresInRange ==
  (resp.op = "recommend" /\ resp.success) =>
    \A i \in 1..Len(resp.recommendations.prioritized_features) :
      /\ resp.recommendations.prioritized_features[i].score.t = "num"
      /\ resp.recommendations.prioritized_features[i].score.n \in 1..10

\* a feature list is in non-increasing order of score, equal scores in the
\* order of the Catalogue enumeration
SortedStable(features) ==
  \A i, j \in 1..Len(features) :
    i < j =>
      \/ features[i].score.n > features[j].score.n
      \/ /\ features[i].score.n = features[j].score.n
         /\ CatalogueIndex(features[i].id) < CatalogueIndex(features[j].id)

\* C6: the prioritized_features of the local Scoring Engine (the engine of
\* section 4.2 and the default model's own algorithm) are in non-increasing
\* order of score, and features of equal score appear in the order of the
\* Catalogue enumeration.
C6_LocalOrderStable ==
  resp.op = "scored" =>
    /\ ~resp.engine.raised => SortedStable(resp.engine.value.prioritized_features)
    /\ SortedStable(resp.basic.value.prioritized_features)

\* C6 witness: a scored request whose order differs from the Catalogue's
\* (micro_loans and financial_education moved ahead of earlier features) and
\* holds a tie the sort kept in Catalogue order (digital_banking ahead of
\* micro_loans at equal score)
C6_Witness ==
  /\ resp.op = "scored"
  /\ ~resp.engine.raised
  /\ LET pf == resp.engine.value.prioritized_features
     IN /\ pf[1].id = "digital_banking"
        /\ pf[2].id = "micro_loans"
        /\ pf[1].score = pf[2].score
        /\ pf[3].id = "financial_education"
  /\ LET pf == resp.basic.value.prioritized_features
     IN /\ pf[1].id = "financial_education"
        /\ pf[1].score.n > pf[2].score.n
        /\ pf[3].score = pf[4].score

\* C7: generate_survey returns exactly the eight questions, in the fixed
\* order, for every user_context and every model.
C7_EightQuestionsInOrder ==
  resp.op = "survey" =>
    /\ Len(resp.survey) = Len(SurveyOrder)
    /\ \A k \in 1..Len(resp.survey) : resp.survey[k].id = SurveyOrder[k]

\* C8: whatever the outcome of load_model the service is usable: get_features
\* returns the six-feature catalogue, generate_survey the eight questions,
\* recommend_features a result with six scored features.
C8_UsableAfterAnyLoad ==
  /\ resp.op = "features" => DOMAIN resp.features = FeatureSet
  /\ resp.op = "survey" => Len(resp.survey) = 8
  /\ (resp.op = "recommend" /\ resp.responses["income_range"].t # "list") =>
       /\ resp.success
       /\ Len(resp.recommendations.prioritized_features) = 6

\* a reply entry lacks its score, explanation or tip
LacksField(entry) ==
  entry.score.t = "absent" \/ entry.explanation.t = "absent" \/ entry.tip.t = "absent"

\* C9: a reply that parses as JSON but has an entry without score,
\* explanation or tip is treated as a failure: the reply is discarded and the
\* request answered as when the Remote Scorer fails.
C9_MissingFieldsFallBack ==
  (resp.op = "recommend" /\ resp.called /\ resp.reply.kind = "json"
     /\ \E i \in 1..Len(resp.reply.entries) : LacksField(resp.reply.entries[i])) =>
    /\ resp.path # "remote"
    /\ resp.recommendations
         = recommend_features(env, model, Service_init(env).svc_features, resp.responses,
                              [kind |-> "error", entries |-> <<>>]).value

\* C10: a Remote Scorer call is made only if the USE_OPENAI flag is true and
\* an API key is configured.
C10_RemoteOnlyWhenEnabledAndKeyed ==
  (resp.op = "recommend" /\ resp.called) =>
    env.USE_OPENAI /\ env.OPENAI_API_KEY # NoApiKey

\* C11: when a Remote Scorer reply is accepted, the prioritized_features
\* returned are in non-increasing order of the score each entry reports,
\* also when entries of the reply have no score or equal scores.
C11_RemoteOrderNonIncreasing ==
  (resp.op = "recommend" /\ resp.path = "remote") =>
    \A i, j \in 1..Len(resp.recommendations.prioritized_features) :
      (/\ i < j
       /\ resp.recommendations.prioritized_features[i].score.t = "num"
       /\ resp.recommendations.prioritized_features[j].score.t = "num") =>
        resp.recommendations.prioritized_features[i].score.n
          >= resp.recommendations.prioritized_features[j].score.n

\* C12: a result of the Remote Scorer path has the shape of a local result:
\* exactly one entry per Catalogue feature, each id one of the six Catalogue
\* identifiers with that feature's Catalogue name, and a user_profile with
\* knowledge_level and income_level.
C12_RemoteShapeLikeLocal ==
  (resp.op = "recommend" /\ resp.path = "remote") =>
    /\ Len(resp.recommendations.prioritized_features) = Len(FeatureIds)
    /\ \A f \in FeatureSet :
         \E i \in 1..Len(resp.recommendations.prioritized_features) :
           /\ resp.recommendations.prioritized_features[i].id = f
           /\ resp.recommendations.prioritized_features[i].name = finergize_features[f].name
    /\ resp.recommendations.shape = "full"

\* the type the normalisation step expects of a field
ExpectedType(field) ==
  IF field \in {"financial_goals", "savings_method"} THEN "list"
  ELSE IF field = "tracking_interest" THEN "num"
  ELSE "str"

\* some field of the responses holds a value of another type
WrongTyped(responses) ==
  \E f \in Fields : responses[f].t \notin {"absent", ExpectedType(f)}

\* C13: for every responses value with wrongly typed fields (a string for a
\* list, a list or number for a single tag, a non-numeric tracking_interest,
\* a non-string or unhashable income_range, a null) POST /recommend succeeds:
\* the value is coerced or defaulted and no error reaches the caller.
C13_WrongTypesNeverSurface ==
  (resp.op = "recommend" /\ WrongTyped(resp.responses)) =>
    resp.success /\ resp.status = 200

\* C14: for POST /recommend in both front ends a malformed body (not valid
\* JSON, empty, or without the responses field) yields HTTP 400, an
\* internal failure yields HTTP 500, and every other request yields 200.
C14_RecommendStatusCodes ==
  (resp.op = "http" /\ resp.route = "recommend") =>
    resp.envelope.status = (IF resp.body \in MalformedKinds THEN 400
                            ELSE IF resp.failed THEN 500
                            ELSE 200)

\* C15: every response of GET /survey, POST /recommend and GET /features, in
\* both front ends, on success and on failure, carries a success flag with
\* either the payload (success true) or an error string (success false); a
\* failure response never carries a payload.
C15_EnvelopeAlwaysWellFormed ==
  resp.op = "http" =>
    \/ /\ resp.envelope.success = "true"
       /\ resp.envelope.payload # "absent"
       /\ ~resp.envelope.error
    \/ /\ resp.envelope.success = "false"
       /\ resp.envelope.error
       /\ resp.envelope.payload = "absent"

\* the responses with the single tag of field f wrapped into a one-element
\* list
Wrapped(responses, f) == [responses EXCEPT ![f] = List({responses[f].s})]

\* C16: for financial_goals and for savings_method a response holding a
\* single tag string s gives the same local scoring result (the six scores
\* and their order) as the response holding the list [s], for every tag and
\* every value of the other fields.
C16_SingleTagEqualsSingleton ==
  resp.op = "scored" =>
    \A f \in {"financial_goals", "savings_method"} :
      resp.responses[f].t = "str" =>
        /\ resp.engine = generate_fallback_recommendations(Wrapped(resp.responses, f))
        /\ resp.basic = BasicModel_recommend_features(Wrapped(resp.responses, f))

\* C16 witness: both fields hold a single tag string and both tags fire
\* their rule (mutual_funds reaches 10)
C16_Witness ==
  /\ resp.op = "scored"
  /\ resp.responses["financial_goals"] = Str("invest")
  /\ resp.responses["savings_method"] = Str("mutual_funds")
  /\ ~resp.engine.raised
  /\ resp.engine.value.prioritized_features[1].id = "mutual_funds"
  /\ resp.engine.value.prioritized_features[1].score = Num(10)

\* the documented default of each of the seven signals
SignalDefault ==
  [financial_goals |-> List({}), banking_habits |-> Str("traditional"),
   savings_method |-> List({}), loan_needs |-> Str("no"),
   digital_comfort |-> Str("somewhat"), tracking_interest |-> Num(3),
   financial_knowledge |-> Str("beginner")]

Defaulted(responses, f) == [responses EXCEPT ![f] = SignalDefault[f]]

\* C17: for each of the seven signals a responses mapping without the field
\* gives the same local scoring result as the mapping with the field set to
\* its documented default.
C17_OmittedEqualsDefault ==
  resp.op = "scored" =>
    \A f \in DOMAIN SignalDefault :
      resp.responses[f].t = "absent" =>
        /\ resp.engine.value.prioritized_features
             = generate_fallback_recommendations(Defaulted(resp.responses, f)).value.prioritized_features
        /\ resp.basic.value.prioritized_features
             = BasicModel_recommend_features(Defaulted(resp.responses, f)).value.prioritized_features

\* the display string of each known income_range tag
IncomeDisplay ==
  [income_low |-> "Below INR 15,000", income_medium_low |-> "INR 15,000 - INR 30,000",
   income_medium |-> "INR 30,000 - INR 60,000",
   income_medium_high |-> "INR 60,000 - INR 1,20,000",
   income_high |-> "Above INR 1,20,000"]

\* C18: in every result of recommend_features (remote path, the model's
\* algorithm, the service fallback) user_profile.income_level is the display
\* string of the income_range tag for the five known tags and
\* "INR 30,000 - INR 60,000" when income_range is absent or another value.
C18_IncomeLevelMapped ==
  (resp.op = "recommend" /\ resp.success) =>
    resp.recommendations.user_profile.income_level
      = (IF /\ resp.responses["income_range"].t = "str"
            /\ resp.responses["income_range"].s \in DOMAIN IncomeDisplay
         THEN IncomeDisplay[resp.responses["income_range"].s]
         ELSE IncomeDisplay["income_medium"])

\* the (id, score) pairs of a feature list, in order
IdScores(features) ==
  [i \in 1..Len(features) |-> <<features[i].id, features[i].score>>]

\* C19: for the fully answered survey (invest, upi, mutual_funds, no loan,
\* very comfortable, tracking 5, advanced) with the Remote Scorer not used,
\* recommend_features returns, in this order, digital_banking 10,
\* mutual_funds 10, analytics_profile 8, community_savings 5, micro_loans 5,
\* financial_education 5.
C19_ScenarioRanking ==
  (resp.op = "recommend" /\ ~resp.called /\ resp.responses = ScenarioResponses) =>
    IdScores(resp.recommendations.prioritized_features)
      = << <<"digital_banking", Num(10)>>, <<"mutual_funds", Num(10)>>,
           <<"analytics_profile", Num(8)>>, <<"community_savings", Num(5)>>,
           <<"micro_loans", Num(5)>>, <<"financial_education", Num(5)>> >>

\* C20: the Remote Scorer call is bounded by a caller-configurable timeout:
\* every remote call carries a configured timeout, and a request waiting for
\* a remote service that never replies still completes, with the local
\* result and not an error.
C20_RemoteCallTimeBounded ==
  /\ [](resp.op = "calling" => resp.timeout # NoTimeout)
  /\ (resp.op = "calling") ~> (resp.op = "recommend" /\ resp.success)

\* C21: generate_survey is insensitive to location, age and interest: the
\* list a survey request returns is the list the service would have returned
\* in the same state for every user_context with the same literacy_level.
C21_SurveyDependsOnLiteracyOnly ==
  [][resp'.op = "survey" =>
       \A uc \in UserContexts :
         uc.literacy_level = resp'.user_context.literacy_level =>
           generate_survey(model.kind, option_icon, uc).questions = resp'.survey]_vars

C21_Witness ==
  /\ resp.op = "survey"
  /\ resp.user_context.location = "Pune"
  /\ resp.user_context.age = "55+"
  /\ resp.user_context.interest = "Loans"
  /\ resp.user_context.literacy_level = "high"
  /\ Len(resp.survey) = 8
  /\ resp.survey[1].options[1].icon # NoKey

\* the three keyword tables, each an ordered list of (substring, result)
SimplifiedTable ==
  << <<Keyword.financial_goals, Text("What do you want to do with your money?")>>,
     <<Keyword.income, Text("How much money do you get each month?")>>,
     <<Keyword.risk, Text("How okay are you if your money goes up and down?")>>,
     <<Keyword.knowledge, Text("How much do you know about money?")>>,
     <<Keyword.banking, Text("How do you use banks now?")>>,
     <<Keyword.save, Text("How do you keep your savings?")>>,
     <<Keyword.loan, Text("Do you need to borrow money?")>>,
     <<Keyword.digital, Text("Do you use money apps on your phone?")>>,
     <<Keyword.tracking, Text("Do you want to see where your money goes?")>> >>
HelpTable ==
  << <<Keyword.financial_goals, "These are things you want to do with your money in the future.">>,
     <<Keyword.income, "This is how much money you get each month from your job or business.">>,
     <<Keyword.risk, "Lower risk means your money is safer but grows slower. Higher risk means it might grow faster but could also lose value.">>,
     <<Keyword.knowledge, "How much you know about money and financial matters.">>,
     <<Keyword.banking_habits, "How you currently use banking services for your money needs.">>,
     <<Keyword.save_money, "Different ways to keep your savings safe and growing.">>,
     <<Keyword.loan, "Whether you need to borrow money for personal or business needs.">>,
     <<Keyword.digital, "How comfortable you are using apps on your phone for money management.">>,
     <<Keyword.tracking, "Understanding where your money goes each month.">> >>
IconTable ==
  << <<Keyword.save, "money bag">>, <<Keyword.emergency, "money bag">>, <<Keyword.bank, "money bag">>,
     <<Keyword.invest, "chart increasing">>, <<Keyword.growth, "chart increasing">>,
     <<Keyword.mutual, "chart increasing">>,
     <<Keyword.loan, "bank">>, <<Keyword.borrow, "bank">>,
     <<Keyword.education, "books">>, <<Keyword.learn, "books">>,
     <<Keyword.retirement, "palm tree">>,
     <<Keyword.community, "family">>, <<Keyword.chit, "family">>, <<Keyword.group, "family">>,
     <<Keyword.track, "bar chart">>, <<Keyword.analytics, "bar chart">>, <<Keyword.spending, "bar chart">>,
     <<Keyword.digital, "mobile phone">>, <<Keyword.mobile, "mobile phone">>, <<Keyword.app, "mobile phone">>,
     <<Keyword.conservative, "shield">>, <<Keyword.low, "shield">>,
     <<Keyword.aggressive, "rocket">>, <<Keyword.high, "rocket">> >>

Matches(table, text) ==
  Let(lower(text), LAMBDA lowered : {i \in 1..Len(table) : Contains(lowered, table[i][1])})
FirstMatch(table, text, fallback) ==
  Let(Matches(table, text),
      LAMBDA m : IF m = {} THEN fallback
                 ELSE table[CHOOSE i \in m : \A j \in m : i <= j][2])

\* C22: each of simplified_question, help_text and icon is the result of the
\* earliest entry of its own keyword table whose substring occurs in the
\* lowercased text, and the table's fallback when no entry matches; no
\* result depends on another table.
C22_FirstMatchPerTable ==
  resp.op = "transformed" =>
    /\ resp.simplified_question =
         FirstMatch(SimplifiedTable, resp.text,
                    Chars(replace(replace(resp.text, Keyword.financial, Keyword.money),
                                  Keyword.investment, Keyword.saving_money)))
    /\ resp.help_text =
         FirstMatch(HelpTable, resp.text,
                    "Please select the option that best describes your situation.")
    /\ resp.icon = FirstMatch(IconTable, resp.text, "check mark")

\* a text that matches two entries of the simplification table and of the
\* icon table and one later entry of the help table
C22_Witness ==
  /\ resp.op = "transformed"
  /\ resp.text = Keyword.banking \o <<" ">> \o Keyword.loan
  /\ Cardinality(Matches(SimplifiedTable, resp.text)) = 2
  /\ Cardinality(Matches(IconTable, resp.text)) = 2
  /\ resp.simplified_question = Text("How do you use banks now?")
  /\ resp.help_text = "Whether you need to borrow money for personal or business needs."
  /\ resp.icon = "money bag"

\* C23: requests served concurrently are independent: when a GET /survey
\* with literacy_level "low" and one with another level are interleaved on
\* one service, each returns what it would return alone on a freshly started
\* service; the other request never sees an option with an icon.
C23_ConcurrentSurveysIndependent ==
  resp.op = "concurrent" =>
    /\ resp.low.pc = "sent" =>
         resp.low.survey = generate_survey(model.kind, NoIcons, resp.low.user_context).questions
    /\ resp.other.pc = "sent" =>
         resp.other.survey = generate_survey(model.kind, NoIcons, resp.other.user_context).questions

\* C24: the service is constructed once per process: however the first
\* requests through get_service interleave, at most one RecommenderService is
\* constructed and all requests use that instance.
C24_OneServicePerProcess ==
  resp.op = "starting" =>
    /\ resp.constructed <= 1
    /\ \A t1, t2 \in 1..MaxThreads :
         (resp.threads[t1].pc = "serving" /\ resp.threads[t2].pc = "serving") =>
           resp.threads[t1].instance = resp.threads[t2].instance

\* C25: when the model's generate_survey raises, the service's
\* generate_survey does not propagate the error but returns the built-in
\* question templates, whatever model the service holds.
C25_SurveyFallsBackToTemplates ==
  (resp.op = "survey" /\ Model_generate_survey_raises(model.kind)) =>
    /\ resp.success
    /\ resp.status = 200
    /\ Len(resp.survey) = 8
    /\ \A k \in 1..Len(resp.survey) : resp.survey[k].id = SurveyOrder[k]

\* C26: an API key stored in a loaded bundle is never kept or used: after
\* construction the model's api_key is the OPENAI_API_KEY of the environment
\* (empty when none is set), and the Remote Scorer branch is entered only
\* when the environment holds a key.
C26_BundleKeyNeverKept ==
  /\ model.api_key = env.OPENAI_API_KEY
  /\ (resp.op = "recommend" /\ resp.attempted) => env.OPENAI_API_KEY # NoApiKey

\* C27: in generate_fallback_recommendations every score before clamping is
\* at least 5, so every returned local score lies in 5..10, and the
\* digital_banking score before clamping never exceeds 10.
C27_RawScoresAtLeastFive ==
  resp.op = "scored" =>
    /\ \A f \in FeatureSet : RawScore(resp.responses, f) >= 5
    /\ RawScore(resp.responses, "digital_banking") <= 10
    /\ ~resp.engine.raised =>
         \A k \in 1..Len(resp.engine.value.prioritized_features) :
           /\ resp.engine.value.prioritized_features[k].score.t = "num"
           /\ resp.engine.value.prioritized_features[k].score.n \in 5..10

\* digital_banking reaches 10 before clamping, another feature stays at 5
C27_Witness ==
  /\ resp.op = "scored"
  /\ ~resp.engine.raised
  /\ RawScore(resp.responses, "digital_banking") = 10
  /\ resp.engine.value.prioritized_features[6].score = Num(5)

\* C28: low-literacy survey generation is repeatable: every "low" call on a
\* service returns the list the first such call on the fresh service
\* returns, whatever requests ran before it, and each returned question
\* keeps the template's id, question, type and option ids and texts.
C28_LowSurveyRepeatable ==
  (resp.op = "survey" /\ resp.user_context.literacy_level = "low") =>
    /\ resp.survey = generate_survey(model.kind, NoIcons, resp.user_context).questions
    /\ \A k \in 1..Len(resp.survey) :
         LET template == BaseQuestionTemplates[SurveyOrder[k]]
         IN /\ resp.survey[k].id = template.id
            /\ resp.survey[k].question = template.question
            /\ resp.survey[k].type = template.type
            /\ Len(resp.survey[k].options) = Len(template.options)
            /\ \A i \in 1..Len(template.options) :
                 /\ resp.survey[k].options[i].id = template.options[i].id
                 /\ resp.survey[k].options[i].text = template.options[i].text

\* a "low" survey with every question transformed
C28_Witness ==
  /\ resp.op = "survey"
  /\ resp.user_context.literacy_level = "low"
  /\ resp.user_context.interest = "Loans"
  /\ Len(resp.survey) = 8
  /\ resp.survey[1].simplified_question = Text("What do you want to do with your money?")
  /\ resp.survey[1].options[1].icon # NoKey

\* C29: run as a script with --update, --input naming an existing loadable
\* model file and --output, update_model.py writes the updated model and
\* exits with status 0; with both --create and --update, with neither, or
\* with --update and no --input it exits with status 1 and writes no file.
C29_ScriptUpdatesAndExits ==
  (resp.op = "exited" /\ resp.args.output) =>
    /\ (resp.args.update /\ ~resp.args.create /\ resp.args.input
          /\ resp.input_file.load \in {"standard", "custom"}) =>
         /\ resp.status = 0
         /\ resp.output = update_existing_model(resp.input_file).output
         /\ resp.output.written
    /\ ((resp.args.create /\ resp.args.update)
          \/ ~(resp.args.create \/ resp.args.update)
          \/ (resp.args.update /\ ~resp.args.input)) =>
         /\ resp.status = 1
         /\ ~resp.output.written

\* C30: every model file update_model.py writes has has_api True and no
\* api_key and holds non-empty finergize_features, question_templates and
\* chat_history, whatever the input model contained; when
\* update_existing_model returns False no output file is written.
C30_WrittenModelsAreClean ==
  resp.op \in {"exited", "updated", "created"} =>
    /\ resp.output.written =>
         /\ resp.output.has_api
         /\ resp.output.api_key = NoApiKey
         /\ resp.output.finergize_features \in {"default", "stored"}
         /\ resp.output.question_templates \in {"default", "stored"}
         /\ resp.output.chat_history \in {"default", "stored"}
    /\ (resp.op = "updated" /\ resp.returned = "False") => ~resp.output.written

\* an input model that stores a key, has has_api False, holds a catalogue,
\* empty templates and no chat history, updated and written
C30_Witness ==
  /\ resp.op = "updated"
  /\ resp.returned = "True"
  /\ resp.input_file.api_key = "sk-bundle"
  /\ ~resp.input_file.has_api
  /\ resp.input_file.finergize_features = "stored"
  /\ resp.input_file.question_templates = "empty"
  /\ resp.input_file.chat_history = "absent"
  /\ resp.output.written
  /\ resp.output.finergize_features = "stored"
  /\ resp.output.question_templates = "default"
====
